---- MODULE Spec2Model ----
(***************************************************************************)
(* A model of the So Lang compilers of this repository:                    *)
(*   "solang"   - src/src/so_lang.c (the compiler with the chain extension)*)
(*   "enhanced" - src/unnamed/part_001 (so_lang_enhanced.c, the compiler   *)
(*                with functions and blocks)                               *)
(*   the chain emitter of src/src/so_lang_solana.h                         *)
(* Characters are one-character strings, a source text is a sequence of    *)
(* characters, a lexeme is a string built with \o.  The end of a C string  *)
(* ('\0') is the empty string NUL.                                         *)
(***************************************************************************)
EXTENDS Integers, Sequences, FiniteSets, TLC

VARIABLES
    variant,        \* which compiler runs: "solang", "enhanced", or "solana"
    pc,             \* position of the running driver
    has_error,      \* static bool has_error
    lexer,          \* the Lexer object: source, pos, line, column, tokens
    tokens,         \* Parser.tokens
    parser,         \* the Parser object: pos
    program,        \* the root node parser_parse is filling, then the AST
    function_names, \* static char** function_names (enhanced)
    iters,          \* iterations of parser_parse's loop so far
    source,         \* the text read_file returned
    argv,           \* the options of the command line, after the file name
    locals,         \* main's to_rust, force_solana, use_anchor, bootstrap,
                    \* is_solana and output file pointer
    statics,        \* detected_solana, detected_program_name, in_function
    compiler,       \* the Compiler or SolanaCompiler object
    output,         \* what was written to the output file, one element per fprintf
    skipped,        \* kinds of the nodes the emitter wrote nothing for
    calls,          \* the stages called so far in this run, oldest first
    exit_code,      \* what main returned; -1 while it runs
    emitted,        \* the outputs of the emissions finished before
    run             \* the number of the pipeline run in this process

lexVars == <<lexer>>
parseVars == <<tokens, parser, program, function_names, iters>>
mainVars == <<source, argv, locals, statics, compiler, output, skipped, calls,
              exit_code, emitted, run>>
vars == <<variant, pc, has_error, lexer, tokens, parser, program,
          function_names, iters, source, argv, locals, statics, compiler,
          output, skipped, calls, exit_code, emitted, run>>

Variants == {"solang", "enhanced"}

\* -------------------------------------------------------------------------
\* Program constants
\* -------------------------------------------------------------------------
MAX_TOKEN_LEN == 256
MAX_TOKENS == 1000
MAX_FUNCTIONS == 50

NUL == ""

\* -------------------------------------------------------------------------
\* <ctype.h>, "C" locale
\* -------------------------------------------------------------------------
Digits == {"0", "1", "2", "3", "4", "5", "6", "7", "8", "9"}
Letters == {"a", "b", "c", "d", "e", "f", "g", "h", "i", "j", "k", "l", "m",
            "n", "o", "p", "q", "r", "s", "t", "u", "v", "w", "x", "y", "z",
            "A", "B", "C", "D", "E", "F", "G", "H", "I", "J", "K", "L", "M",
            "N", "O", "P", "Q", "R", "S", "T", "U", "V", "W", "X", "Y", "Z"}
isspace(c) == c \in {" ", "\t", "\n", "\r", "\f"}
isalpha(c) == c \in Letters
isdigit(c) == c \in Digits
isalnum(c) == isalpha(c) \/ isdigit(c)

\* -------------------------------------------------------------------------
\* Lexer.  A lexer state st is [lexer |-> the Lexer object, has_error |-> the
\* static flag]; every routine maps a state to the state it leaves.
\* -------------------------------------------------------------------------
lexer_create(src) ==
    [source |-> src, pos |-> 0, line |-> 1, column |-> 1, tokens |-> <<>>]

\* source[p] of the C string (p counted from 0); the terminator past the end
CharAt(src, p) == IF p < Len(src) THEN src[p + 1] ELSE NUL

lexer_current_char(lx) == CharAt(lx.source, lx.pos)

lexer_advance(st) ==
    LET lx == st.lexer
        c == lexer_current_char(lx)
    IN  [st EXCEPT !.lexer =
            IF c = "\n"
            THEN [lx EXCEPT !.pos = lx.pos + 1, !.line = lx.line + 1, !.column = 1]
            ELSE [lx EXCEPT !.pos = lx.pos + 1, !.column = lx.column + 1]]

RECURSIVE lexer_skip_whitespace(_)
lexer_skip_whitespace(st) ==
    LET c == lexer_current_char(st.lexer)
    IN  IF isspace(c) /\ c # "\n"
        THEN lexer_skip_whitespace(lexer_advance(st))
        ELSE st

RECURSIVE SkipToLineEnd(_)
SkipToLineEnd(st) ==
    LET c == lexer_current_char(st.lexer)
    IN  IF c # "\n" /\ c # NUL THEN SkipToLineEnd(lexer_advance(st)) ELSE st

lexer_skip_comment(st) ==
    IF lexer_current_char(st.lexer) = "/"
       /\ CharAt(st.lexer.source, st.lexer.pos + 1) = "/"
    THEN SkipToLineEnd(st)
    ELSE st

lexer_add_token(st, type, value) ==
    IF Len(st.lexer.tokens) >= MAX_TOKENS
    THEN [st EXCEPT !.has_error = TRUE]
    ELSE [st EXCEPT !.lexer.tokens =
            Append(@, [type |-> type, value |-> value,
                       line |-> st.lexer.line, column |-> st.lexer.column])]

\* one iteration of the loop of lexer_read_string of so_lang.c; s is
\* [st |-> the lexer state, buffer |-> the i characters stored, i |-> i]
PlainStep(s) ==
    LET c == lexer_current_char(s.st.lexer)
    IN  IF s.i < MAX_TOKEN_LEN - 1
        THEN [st |-> lexer_advance(s.st), buffer |-> s.buffer \o c, i |-> s.i + 1]
        ELSE [s EXCEPT !.st = lexer_advance(s.st)]

Unescape(escaped) ==
    CASE escaped = "n" -> "\n"
      [] escaped = "t" -> "\t"
      [] escaped = "r" -> "\r"
      [] OTHER -> escaped

\* one iteration of the loop of lexer_read_string of the enhanced compiler;
\* the escape branch stores without looking at i
EscapeStep(s) ==
    LET c == lexer_current_char(s.st.lexer)
    IN  IF c = "\\"
        THEN LET st1 == lexer_advance(s.st)
                 escaped == lexer_current_char(st1.lexer)
             IN  [st |-> lexer_advance(st1),
                  buffer |-> s.buffer \o Unescape(escaped), i |-> s.i + 1]
        ELSE PlainStep(s)

\* at most n iterations of the loop of lexer_read_string, each half after the
\* other: while (current != '"' && current != '\0')
RECURSIVE StringSteps(_, _, _)
StringSteps(s, v, n) ==
    IF n <= 0 \/ lexer_current_char(s.st.lexer) \in {"\"", NUL} THEN s
    ELSE IF n = 1 THEN (IF v = "enhanced" THEN EscapeStep(s) ELSE PlainStep(s))
    ELSE StringSteps(StringSteps(s, v, n \div 2), v, n - n \div 2)

\* the loop of lexer_read_string of so_lang.c: an iteration passes at least
\* one character
ReadStringPlain(st, buffer, i) ==
    StringSteps([st |-> st, buffer |-> buffer, i |-> i], "solang",
                Len(st.lexer.source) - st.lexer.pos)

\* the loop of lexer_read_string of the enhanced compiler
ReadStringEscapes(st, buffer, i) ==
    StringSteps([st |-> st, buffer |-> buffer, i |-> i], "enhanced",
                Len(st.lexer.source) - st.lexer.pos)

lexer_read_string(st, v) ==
    LET st0 == lexer_advance(st)
        r == IF v = "enhanced" THEN ReadStringEscapes(st0, "", 0)
                               ELSE ReadStringPlain(st0, "", 0)
        st1 == IF lexer_current_char(r.st.lexer) = "\""
               THEN lexer_advance(r.st) ELSE r.st
    IN  lexer_add_token(st1, "TOKEN_STRING", r.buffer)

\* the characters of chars one after the other, as one text
RECURSIVE Text(_)
Text(chars) ==
    IF chars = <<>> THEN ""
    ELSE IF Len(chars) = 1 THEN chars[1]
    ELSE Text(SubSeq(chars, 1, Len(chars) \div 2))
         \o Text(SubSeq(chars, Len(chars) \div 2 + 1, Len(chars)))

\* n calls of lexer_advance on characters none of which is a newline
AdvanceRun(st, n) ==
    [st EXCEPT !.lexer.pos = @ + n, !.lexer.column = @ + n]

\* what the store `if (i < MAX_TOKEN_LEN - 1) buffer[i++] = c` has put into a
\* buffer of i characters after the n characters at pos
StoreRun(st, buffer, i, n) ==
    LET room == IF i < MAX_TOKEN_LEN - 1 THEN MAX_TOKEN_LEN - 1 - i ELSE 0
        kept == IF n < room THEN n ELSE room
    IN  buffer \o Text(SubSeq(st.lexer.source, st.lexer.pos + 1,
                              st.lexer.pos + kept))

\* the number of iterations of the loop of lexer_read_identifier
IdentifierRun(lx) ==
    CHOOSE n \in 0..(Len(lx.source) - lx.pos) :
        /\ LET c == CharAt(lx.source, lx.pos + n) IN ~(isalnum(c) \/ c = "_")
        /\ \A k \in 0..(n - 1) :
               LET c == CharAt(lx.source, lx.pos + k) IN isalnum(c) \/ c = "_"

\* the loop of lexer_read_identifier: every character of the run is passed by
\* lexer_advance, and stored while i < MAX_TOKEN_LEN - 1
ReadIdentifier(st, buffer, i) ==
    [st |-> AdvanceRun(st, IdentifierRun(st.lexer)),
     buffer |-> StoreRun(st, buffer, i, IdentifierRun(st.lexer))]

KeywordType(buffer, v) ==
    CASE buffer = "let" -> "TOKEN_LET"
      [] buffer = "fn" -> "TOKEN_FN"
      [] buffer = "if" -> "TOKEN_IF"
      [] buffer = "else" -> "TOKEN_ELSE"
      [] buffer = "return" -> "TOKEN_RETURN"
      [] buffer = "print" -> "TOKEN_PRINT"
      [] v = "solang" /\ buffer = "program" -> "TOKEN_PROGRAM"
      [] v = "solang" /\ buffer = "instruction" -> "TOKEN_INSTRUCTION"
      [] v = "solang" /\ buffer = "account" -> "TOKEN_ACCOUNT"
      [] v = "solang" /\ buffer = "state" -> "TOKEN_STATE"
      [] v = "solang" /\ buffer = "pubkey" -> "TOKEN_PUBKEY"
      [] v = "solang" /\ buffer = "signer" -> "TOKEN_SIGNER"
      [] v = "solang" /\ buffer = "writable" -> "TOKEN_WRITABLE"
      [] v = "solang" /\ buffer = "init" -> "TOKEN_INIT"
      [] v = "solang" /\ buffer = "seeds" -> "TOKEN_SEEDS"
      [] v = "solang" /\ buffer = "bump" -> "TOKEN_BUMP"
      [] v = "solang" /\ buffer = "transfer" -> "TOKEN_TRANSFER"
      [] v = "solang" /\ buffer = "require" -> "TOKEN_REQUIRE"
      [] v = "solang" /\ buffer = "emit" -> "TOKEN_EMIT"
      [] OTHER -> "TOKEN_IDENTIFIER"

\* lexer_read_identifier without the keyword table
lexer_read_identifier_no_keywords(st, v) ==
    LET r == ReadIdentifier(st, "", 0)
    IN  lexer_add_token(r.st, "TOKEN_IDENTIFIER", r.buffer)

lexer_read_identifier(st, v) ==
    LET r == ReadIdentifier(st, "", 0)
    IN  lexer_add_token(r.st, KeywordType(r.buffer, v), r.buffer)

\* the loop of lexer_read_number; only the enhanced compiler keeps has_dot
NumberChar(lx, k, has_dot, v) ==
    LET c == CharAt(lx.source, lx.pos + k)
    IN  \/ isdigit(c)
        \/ /\ c = "."
           /\ \/ v = "solang"
              \/ ~(has_dot \/ \E j \in 0..(k - 1) :
                                  CharAt(lx.source, lx.pos + j) = ".")

\* the number of iterations of the loop of lexer_read_number
NumberRun(lx, has_dot, v) ==
    CHOOSE n \in 0..(Len(lx.source) - lx.pos) :
        /\ ~NumberChar(lx, n, has_dot, v)
        /\ \A k \in 0..(n - 1) : NumberChar(lx, k, has_dot, v)

ReadNumber(st, buffer, i, has_dot, v) ==
    [st |-> AdvanceRun(st, NumberRun(st.lexer, has_dot, v)),
     buffer |-> StoreRun(st, buffer, i, NumberRun(st.lexer, has_dot, v))]

lexer_read_number(st, v) ==
    LET r == ReadNumber(st, "", 0, FALSE, v)
    IN  lexer_add_token(r.st, "TOKEN_NUMBER", r.buffer)

PunctType(c, v) ==
    CASE c = "+" -> "TOKEN_PLUS"
      [] c = "-" -> "TOKEN_MINUS"
      [] c = "*" -> "TOKEN_MULTIPLY"
      [] c = "/" -> "TOKEN_DIVIDE"
      [] c = "<" -> "TOKEN_LESS"
      [] c = ">" -> "TOKEN_GREATER"
      [] c = "(" -> "TOKEN_LPAREN"
      [] c = ")" -> "TOKEN_RPAREN"
      [] c = "{" -> "TOKEN_LBRACE"
      [] c = "}" -> "TOKEN_RBRACE"
      [] c = "," -> "TOKEN_COMMA"
      [] c = ";" -> "TOKEN_SEMICOLON"
      [] c = "@" /\ v = "solang" -> "TOKEN_AT_SYMBOL"
      [] OTHER -> "none"

\* the switch of lexer_tokenize and the lexer_advance after it
LexPunctuation(st, v) ==
    LET c == lexer_current_char(st.lexer)
        st1 == IF c = "="
               THEN IF CharAt(st.lexer.source, st.lexer.pos + 1) = "="
                    THEN lexer_add_token(lexer_advance(st), "TOKEN_EQUAL", "==")
                    ELSE lexer_add_token(st, "TOKEN_ASSIGN", "=")
               ELSE IF PunctType(c, v) # "none"
                    THEN lexer_add_token(st, PunctType(c, v), c)
                    ELSE [st EXCEPT !.has_error = TRUE]
    IN  lexer_advance(st1)

\* one iteration of the while loop of lexer_tokenize
LexerStep(st, v) ==
    LET c == lexer_current_char(st.lexer)
    IN  IF isspace(c) /\ c # "\n" THEN lexer_skip_whitespace(st)
        ELSE IF v = "enhanced" /\ c = "/"
                /\ CharAt(st.lexer.source, st.lexer.pos + 1) = "/"
             THEN lexer_skip_comment(st)
        ELSE IF c = "\n"
             THEN lexer_advance(lexer_add_token(st, "TOKEN_NEWLINE", "\n"))
        ELSE IF c = "\"" THEN lexer_read_string(st, v)
        ELSE IF isalpha(c) \/ c = "_" THEN lexer_read_identifier(st, v)
        ELSE IF isdigit(c) THEN lexer_read_number(st, v)
        ELSE LexPunctuation(st, v)

\* what follows the loop of lexer_tokenize
LexerFinish(st) == lexer_add_token(st, "TOKEN_EOF", "")

\* at most n iterations of the loop of lexer_tokenize, each half after the other
RECURSIVE LexerSteps(_, _, _)
LexerSteps(st, v, n) ==
    IF n = 0 \/ lexer_current_char(st.lexer) = NUL THEN st
    ELSE IF n = 1 THEN LexerStep(st, v)
    ELSE LexerSteps(LexerSteps(st, v, n \div 2), v, n - n \div 2)

\* while (lexer_current_char(lexer) != '\0'): an iteration passes at least
\* one character, so the loop ends within one iteration per character left
LexerLoop(st, v) == LexerSteps(st, v, Len(st.lexer.source) - st.lexer.pos)

\* lexer_tokenize as a whole
lexer_tokenize(st, v) == LexerFinish(LexerLoop(st, v))

\* -------------------------------------------------------------------------
\* AST
\* -------------------------------------------------------------------------
NULL == [type |-> "NULL"]

\* ast_create_node / solana_ast_create_node; program_id is <<>> for a null
\* pointer and <<id>> otherwise
ast_create_node(type) ==
    [type |-> type, value |-> "", left |-> NULL, right |-> NULL,
     condition |-> NULL, then_branch |-> NULL, else_branch |-> NULL,
     children |-> <<>>, program_id |-> <<>>,
     is_signer |-> FALSE, is_writable |-> FALSE, is_init |-> FALSE,
     solana_type |-> "SOLANA_TYPE_U64"]

\* -------------------------------------------------------------------------
\* Parser.  A parser state ps is [pos |-> Parser.pos, has_error and
\* function_names |-> the statics, hang |-> a loop of the parser has come
\* back to the state it started an iteration in, so it never ends].  Every
\* parse routine yields [node |-> what it returns, ps |-> the state it leaves].
\* -------------------------------------------------------------------------
parser_create(has_err, fnames) ==
    [pos |-> 0, has_error |-> has_err, function_names |-> fnames, hang |-> FALSE]

parser_current_token(toks, ps) ==
    IF ps.pos >= Len(toks) THEN toks[Len(toks)] ELSE toks[ps.pos + 1]

CurType(toks, ps) == parser_current_token(toks, ps).type

\* parser_advance without the test on the end of the tokens
parser_advance_unguarded(toks, ps) == [ps EXCEPT !.pos = ps.pos + 1]

parser_advance(toks, ps) ==
    IF ps.pos < Len(toks) - 1 THEN [ps EXCEPT !.pos = ps.pos + 1] ELSE ps

\* the state parser_match leaves; it returns true iff it moved or matched
parser_match(toks, ps, type) ==
    IF CurType(toks, ps) = type THEN parser_advance(toks, ps) ELSE ps

Matches(toks, ps, type) == CurType(toks, ps) = type

Ret(node, ps) == [node |-> node, ps |-> ps]

\* while (current != stop && current != EOF) parser_advance(parser);
RECURSIVE SkipUntil(_, _, _)
SkipUntil(toks, ps, stop) ==
    IF CurType(toks, ps) # stop /\ CurType(toks, ps) # "TOKEN_EOF"
    THEN IF parser_advance(toks, ps) = ps
         THEN [ps EXCEPT !.hang = TRUE]
         ELSE SkipUntil(toks, parser_advance(toks, ps), stop)
    ELSE ps

\* while (parser_match(NEWLINE) || parser_match(SEMICOLON)) {}
RECURSIVE SkipTerminators(_, _)
SkipTerminators(toks, ps) ==
    IF CurType(toks, ps) \in {"TOKEN_NEWLINE", "TOKEN_SEMICOLON"}
    THEN IF parser_advance(toks, ps) = ps
         THEN [ps EXCEPT !.hang = TRUE]
         ELSE SkipTerminators(toks, parser_advance(toks, ps))
    ELSE ps

BinaryOps == {"TOKEN_PLUS", "TOKEN_MINUS", "TOKEN_MULTIPLY", "TOKEN_DIVIDE",
              "TOKEN_EQUAL", "TOKEN_LESS", "TOKEN_GREATER"}

\* The parse routines call each other through Parse(routine, toks, ps, v),
\* defined after them: Parse("statement", ...) is parser_parse_statement.
RECURSIVE Parse(_, _, _, _)
RECURSIVE BlockLoop(_, _, _)
RECURSIVE ProgramBodyLoop(_, _, _)

parser_parse_primary(toks, ps, v) ==
    LET token == parser_current_token(toks, ps)
    IN  CASE token.type = "TOKEN_NUMBER" ->
               Ret([ast_create_node("NODE_NUMBER") EXCEPT !.value = token.value],
                   parser_advance(toks, ps))
          [] token.type = "TOKEN_STRING" ->
               Ret([ast_create_node("NODE_STRING") EXCEPT !.value = token.value],
                   parser_advance(toks, ps))
          [] token.type = "TOKEN_IDENTIFIER" ->
               LET ps1 == parser_advance(toks, ps)
                   node == [ast_create_node("NODE_IDENTIFIER") EXCEPT !.value = token.value]
               IN  IF CurType(toks, ps1) = "TOKEN_LPAREN"
                   THEN LET ps2 == parser_advance(toks, ps1)
                            ps3 == IF v = "enhanced"
                                   THEN SkipUntil(toks, ps2, "TOKEN_RPAREN")
                                   ELSE ps2
                        IN  Ret([node EXCEPT !.type = "NODE_FUNC_CALL"],
                                IF ps3.hang THEN ps3
                                ELSE parser_match(toks, ps3, "TOKEN_RPAREN"))
                   ELSE Ret(node, ps1)
          [] token.type = "TOKEN_LPAREN" ->
               LET r == Parse("expression", toks, parser_advance(toks, ps), v)
               IN  IF r.ps.hang THEN r
                   ELSE Ret(r.node, parser_match(toks, r.ps, "TOKEN_RPAREN"))
          [] OTHER -> Ret(NULL, ps)

\* parser_parse_binary with the right operand read by parser_parse_expression,
\* so that a chain of operators nests to the right
parser_parse_binary_chained(toks, ps, v) ==
    LET l == Parse("primary", toks, ps, v)
        op == parser_current_token(toks, l.ps)
    IN  IF l.ps.hang THEN l
        ELSE IF op.type \in BinaryOps
        THEN LET r == Parse("expression", toks, parser_advance(toks, l.ps), v)
             IN  Ret([ast_create_node("NODE_BINARY_OP") EXCEPT
                         !.value = op.value, !.left = l.node, !.right = r.node],
                     r.ps)
        ELSE l

parser_parse_binary(toks, ps, v) ==
    LET l == Parse("primary", toks, ps, v)
        op == parser_current_token(toks, l.ps)
    IN  IF l.ps.hang THEN l
        ELSE IF op.type \in BinaryOps
        THEN LET r == Parse("primary", toks, parser_advance(toks, l.ps), v)
             IN  Ret([ast_create_node("NODE_BINARY_OP") EXCEPT
                         !.value = op.value, !.left = l.node, !.right = r.node],
                     r.ps)
        ELSE l

\* parser_parse_block of the enhanced compiler; a block holds 50 children
BlockLoop(toks, ps, block) ==
    IF CurType(toks, ps) # "TOKEN_RBRACE" /\ CurType(toks, ps) # "TOKEN_EOF"
    THEN IF Matches(toks, ps, "TOKEN_NEWLINE")
         THEN BlockLoop(toks, parser_advance(toks, ps), block)
         ELSE LET r == Parse("statement", toks, ps, "enhanced")
                  block1 == IF r.node # NULL /\ Len(block.children) < 50
                            THEN [block EXCEPT !.children = Append(@, r.node)]
                            ELSE block
              IN  IF r.ps.hang THEN Ret(block1, r.ps)
                  ELSE IF r.ps = ps /\ block1 = block
                  THEN Ret(block, [ps EXCEPT !.hang = TRUE])
                  ELSE BlockLoop(toks, r.ps, block1)
    ELSE Ret(block, ps)

parser_parse_block(toks, ps) ==
    LET block == ast_create_node("NODE_PROGRAM")
    IN  IF ~Matches(toks, ps, "TOKEN_LBRACE")
        THEN Ret(block, [ps EXCEPT !.has_error = TRUE])
        ELSE LET r == BlockLoop(toks, parser_advance(toks, ps), block)
             IN  IF r.ps.hang THEN r
                 ELSE Ret(r.node, parser_match(toks, r.ps, "TOKEN_RBRACE"))

\* the registry of parser_parse_function
RegisterFunction(ps, name) ==
    IF Len(ps.function_names) < MAX_FUNCTIONS
    THEN [ps EXCEPT !.function_names = Append(@, name)]
    ELSE ps

parser_parse_function(toks, ps) ==
    LET ps0 == parser_advance(toks, ps)
        func == ast_create_node("NODE_FUNC_DECL")
        name == parser_current_token(toks, ps0)
    IN  IF name.type = "TOKEN_IDENTIFIER"
        THEN LET ps1 == parser_advance(toks, ps0)
                 ps2 == IF Matches(toks, ps1, "TOKEN_LPAREN")
                        THEN SkipUntil(toks, parser_advance(toks, ps1), "TOKEN_RPAREN")
                        ELSE ps1
                 ps3 == IF Matches(toks, ps1, "TOKEN_LPAREN") /\ ~ps2.hang
                        THEN parser_match(toks, ps2, "TOKEN_RPAREN")
                        ELSE ps2
                 b == Parse("block", toks, ps3, "enhanced")
             IN  IF ps3.hang THEN Ret(func, ps3)
                 ELSE IF b.ps.hang THEN Ret(func, b.ps)
                 ELSE Ret([func EXCEPT !.value = name.value, !.left = b.node],
                          RegisterFunction(b.ps, name.value))
        ELSE Ret(func, ps0)

\* `let` of parser_parse_statement
ParseLet(toks, ps, v) ==
    LET ps0 == parser_advance(toks, ps)
        node == ast_create_node("NODE_VAR_DECL")
        name == parser_current_token(toks, ps0)
    IN  IF name.type = "TOKEN_IDENTIFIER"
        THEN LET ps1 == parser_advance(toks, ps0)
                 named == [node EXCEPT !.value = name.value]
             IN  IF Matches(toks, ps1, "TOKEN_ASSIGN")
                 THEN LET r == Parse("expression", toks, parser_advance(toks, ps1), v)
                      IN  Ret([named EXCEPT !.right = r.node], r.ps)
                 ELSE Ret(named, ps1)
        ELSE Ret(node, ps0)

\* `print` of parser_parse_statement
ParsePrint(toks, ps, v) ==
    LET ps0 == parser_advance(toks, ps)
        node == ast_create_node("NODE_PRINT_STMT")
    IN  IF Matches(toks, ps0, "TOKEN_LPAREN")
        THEN LET r == Parse("expression", toks, parser_advance(toks, ps0), v)
             IN  IF r.ps.hang THEN Ret(node, r.ps)
                 ELSE Ret([node EXCEPT !.left = r.node],
                          parser_match(toks, r.ps, "TOKEN_RPAREN"))
        ELSE Ret(node, ps0)

\* `if` of parser_parse_statement of so_lang.c: each branch is one statement
ParseIfSolang(toks, ps) ==
    LET c == Parse("expression", toks, parser_advance(toks, ps), "solang")
        node == [ast_create_node("NODE_IF_STMT") EXCEPT !.condition = c.node]
    IN  IF c.ps.hang \/ ~Matches(toks, c.ps, "TOKEN_LBRACE") THEN Ret(node, c.ps)
        ELSE
        LET t == Parse("statement", toks, parser_advance(toks, c.ps), "solang")
            node1 == [node EXCEPT !.then_branch = t.node]
            ps1 == parser_match(toks, t.ps, "TOKEN_RBRACE")
        IN  IF t.ps.hang THEN Ret(node1, t.ps)
            ELSE IF Matches(toks, ps1, "TOKEN_ELSE")
                    /\ Matches(toks, parser_advance(toks, ps1), "TOKEN_LBRACE")
            THEN LET e == Parse("statement",
                              toks, parser_advance(toks, parser_advance(toks, ps1)),
                              "solang")
                 IN  IF e.ps.hang THEN Ret(node1, e.ps)
                     ELSE Ret([node1 EXCEPT !.else_branch = e.node],
                              parser_match(toks, e.ps, "TOKEN_RBRACE"))
            ELSE Ret(node1, parser_match(toks, ps1, "TOKEN_ELSE"))

\* `if` of parser_parse_statement of the enhanced compiler
\* the `if` of parser_parse_statement with every `else` read as a block
ParseIfElseBlock(toks, ps) ==
    LET c == Parse("expression", toks, parser_advance(toks, ps), "enhanced")
        node == [ast_create_node("NODE_IF_STMT") EXCEPT !.condition = c.node]
        t == Parse("block", toks, c.ps, "enhanced")
        node1 == [node EXCEPT !.then_branch = t.node]
    IN  IF c.ps.hang THEN Ret(node, c.ps)
        ELSE IF t.ps.hang THEN Ret(node1, t.ps)
        ELSE IF Matches(toks, t.ps, "TOKEN_ELSE")
        THEN LET e == Parse("block", toks, parser_advance(toks, t.ps), "enhanced")
             IN  Ret([node1 EXCEPT !.else_branch = e.node], e.ps)
        ELSE Ret(node1, t.ps)

ParseIfEnhanced(toks, ps) ==
    LET c == Parse("expression", toks, parser_advance(toks, ps), "enhanced")
        node == [ast_create_node("NODE_IF_STMT") EXCEPT !.condition = c.node]
        t == Parse("block", toks, c.ps, "enhanced")
        node1 == [node EXCEPT !.then_branch = t.node]
    IN  IF c.ps.hang THEN Ret(node, c.ps)
        ELSE IF t.ps.hang THEN Ret(node1, t.ps)
        ELSE IF Matches(toks, t.ps, "TOKEN_ELSE")
        THEN LET ps1 == parser_advance(toks, t.ps)
                 e == IF Matches(toks, ps1, "TOKEN_IF")
                      THEN Parse("statement", toks, ps1, "enhanced")
                      ELSE Parse("block", toks, ps1, "enhanced")
             IN  Ret([node1 EXCEPT !.else_branch = e.node], e.ps)
        ELSE Ret(node1, t.ps)

\* `return` of parser_parse_statement
ParseReturn(toks, ps, v) ==
    LET ps0 == parser_advance(toks, ps)
        node == ast_create_node("NODE_RETURN_STMT")
    IN  IF v = "enhanced"
           /\ CurType(toks, ps0) \in {"TOKEN_NEWLINE", "TOKEN_SEMICOLON", "TOKEN_EOF"}
        THEN Ret(node, ps0)
        ELSE LET r == Parse("expression", toks, ps0, v)
             IN  Ret([node EXCEPT !.left = r.node], r.ps)

\* solana_parse_program_declaration: the body holds 100 children
ProgramBodyLoop(toks, ps, prog) ==
    IF CurType(toks, ps) # "TOKEN_RBRACE" /\ CurType(toks, ps) # "TOKEN_EOF"
    THEN IF Matches(toks, ps, "TOKEN_NEWLINE")
         THEN ProgramBodyLoop(toks, parser_advance(toks, ps), prog)
         ELSE LET r == Parse("solana", toks, ps, "solang")
                  prog1 == IF r.node # NULL /\ Len(prog.children) < 100
                           THEN [prog EXCEPT !.children = Append(@, r.node)]
                           ELSE prog
              IN  IF r.ps.hang THEN Ret(prog1, r.ps)
                  ELSE IF r.ps = ps /\ prog1 = prog
                  THEN Ret(prog, [ps EXCEPT !.hang = TRUE])
                  ELSE ProgramBodyLoop(toks, r.ps, prog1)
    ELSE Ret(prog, ps)

solana_parse_program_declaration(toks, ps) ==
    LET ps0 == parser_advance(toks, ps)
        name == parser_current_token(toks, ps0)
        prog0 == IF name.type = "TOKEN_IDENTIFIER"
                 THEN [ast_create_node("NODE_PROGRAM_DECL") EXCEPT !.value = name.value]
                 ELSE ast_create_node("NODE_PROGRAM_DECL")
        ps1 == IF name.type = "TOKEN_IDENTIFIER" THEN parser_advance(toks, ps0) ELSE ps0
        hasId == Matches(toks, ps1, "TOKEN_LPAREN")
        id == parser_current_token(toks, parser_advance(toks, ps1))
        prog1 == IF hasId /\ id.type = "TOKEN_STRING"
                 THEN [prog0 EXCEPT !.program_id = <<id.value>>]
                 ELSE prog0
        ps2 == IF hasId
               THEN parser_match(toks,
                        IF id.type = "TOKEN_STRING"
                        THEN parser_advance(toks, parser_advance(toks, ps1))
                        ELSE parser_advance(toks, ps1),
                        "TOKEN_RPAREN")
               ELSE ps1
    IN  IF Matches(toks, ps2, "TOKEN_LBRACE")
        THEN LET r == ProgramBodyLoop(toks, parser_advance(toks, ps2), prog1)
             IN  IF r.ps.hang THEN r
                 ELSE Ret(r.node, parser_match(toks, r.ps, "TOKEN_RBRACE"))
        ELSE Ret(prog1, ps2)

solana_parse_instruction_declaration(toks, ps) ==
    LET ps0 == parser_advance(toks, ps)
        name == parser_current_token(toks, ps0)
        ins0 == IF name.type = "TOKEN_IDENTIFIER"
                THEN [ast_create_node("NODE_INSTRUCTION_DECL") EXCEPT !.value = name.value]
                ELSE ast_create_node("NODE_INSTRUCTION_DECL")
        ps1 == IF name.type = "TOKEN_IDENTIFIER" THEN parser_advance(toks, ps0) ELSE ps0
        ps2 == IF Matches(toks, ps1, "TOKEN_LPAREN")
               THEN SkipUntil(toks, parser_advance(toks, ps1), "TOKEN_RPAREN")
               ELSE ps1
        ps3 == IF Matches(toks, ps1, "TOKEN_LPAREN") /\ ~ps2.hang
               THEN parser_match(toks, ps2, "TOKEN_RPAREN")
               ELSE ps2
    IN  IF ps3.hang THEN Ret(ins0, ps3)
        ELSE IF Matches(toks, ps3, "TOKEN_LBRACE")
        THEN LET r == Parse("solana", toks, parser_advance(toks, ps3), "solang")
             IN  IF r.ps.hang THEN Ret(ins0, r.ps)
                 ELSE Ret([ins0 EXCEPT !.left = r.node],
                          parser_match(toks, r.ps, "TOKEN_RBRACE"))
        ELSE Ret(ins0, ps3)

\* the constraint list of solana_parse_account_declaration, left at the first
\* token that is neither a constraint nor a comma
RECURSIVE AccountConstraintLoopStrict(_, _, _)
AccountConstraintLoopStrict(toks, ps, account) ==
    IF CurType(toks, ps) \in {"TOKEN_SIGNER", "TOKEN_WRITABLE", "TOKEN_INIT",
                              "TOKEN_COMMA"}
    THEN LET c == CurType(toks, ps)
             account1 == [account EXCEPT
                 !.is_signer = @ \/ c = "TOKEN_SIGNER",
                 !.is_writable = @ \/ c = "TOKEN_WRITABLE",
                 !.is_init = @ \/ c = "TOKEN_INIT"]
         IN  AccountConstraintLoopStrict(
                 toks, parser_match(toks, parser_advance(toks, ps), "TOKEN_COMMA"),
                 account1)
    ELSE Ret(account, ps)

\* the constraint list of solana_parse_account_declaration
RECURSIVE AccountConstraintLoop(_, _, _)
AccountConstraintLoop(toks, ps, account) ==
    IF CurType(toks, ps) # "TOKEN_RPAREN" /\ CurType(toks, ps) # "TOKEN_EOF"
    THEN LET c == CurType(toks, ps)
             account1 == [account EXCEPT
                 !.is_signer = @ \/ c = "TOKEN_SIGNER",
                 !.is_writable = @ \/ c = "TOKEN_WRITABLE",
                 !.is_init = @ \/ c = "TOKEN_INIT"]
             ps1 == parser_match(toks, parser_advance(toks, ps), "TOKEN_COMMA")
         IN  IF ps1 = ps /\ account1 = account
             THEN Ret(account, [ps EXCEPT !.hang = TRUE])
             ELSE AccountConstraintLoop(toks, ps1, account1)
    ELSE Ret(account, ps)

solana_parse_account_declaration(toks, ps) ==
    LET ps0 == parser_advance(toks, ps)
        name == parser_current_token(toks, ps0)
        acc0 == IF name.type = "TOKEN_IDENTIFIER"
                THEN [ast_create_node("NODE_ACCOUNT_DECL") EXCEPT !.value = name.value]
                ELSE ast_create_node("NODE_ACCOUNT_DECL")
        ps1 == IF name.type = "TOKEN_IDENTIFIER" THEN parser_advance(toks, ps0) ELSE ps0
        r == IF Matches(toks, ps1, "TOKEN_LPAREN")
             THEN AccountConstraintLoop(toks, parser_advance(toks, ps1), acc0)
             ELSE Ret(acc0, ps1)
        ps2 == IF Matches(toks, ps1, "TOKEN_LPAREN") /\ ~r.ps.hang
               THEN parser_match(toks, r.ps, "TOKEN_RPAREN")
               ELSE r.ps
    IN  IF ps2.hang THEN Ret(r.node, ps2)
        ELSE IF Matches(toks, ps2, "TOKEN_COLON")
        THEN LET type == CurType(toks, parser_advance(toks, ps2))
             IN  Ret([r.node EXCEPT !.solana_type =
                         CASE type = "TOKEN_PUBKEY" -> "SOLANA_TYPE_PUBKEY"
                           [] type = "TOKEN_LAMPORTS" -> "SOLANA_TYPE_LAMPORTS"
                           [] OTHER -> @],
                     parser_advance(toks, parser_advance(toks, ps2)))
        ELSE Ret(r.node, ps2)

solana_parse_transfer_statement(toks, ps) ==
    LET ps0 == parser_advance(toks, ps)
        transfer == ast_create_node("NODE_TRANSFER_STMT")
    IN  IF Matches(toks, ps0, "TOKEN_LPAREN")
        THEN LET a == Parse("expression", toks, parser_advance(toks, ps0), "solang")
                 hasB == Matches(toks, a.ps, "TOKEN_COMMA")
                 b == IF hasB
                      THEN Parse("expression", toks, parser_advance(toks, a.ps), "solang")
                      ELSE Ret(NULL, a.ps)
                 hasC == Matches(toks, b.ps, "TOKEN_COMMA")
                 c == IF hasC
                      THEN Parse("expression", toks, parser_advance(toks, b.ps), "solang")
                      ELSE Ret(NULL, b.ps)
             IN  Ret([transfer EXCEPT !.left = a.node, !.right = b.node,
                                      !.condition = c.node],
                     parser_match(toks, c.ps, "TOKEN_RPAREN"))
        ELSE Ret(transfer, ps0)

solana_parse_require_statement(toks, ps) ==
    LET ps0 == parser_advance(toks, ps)
        req == ast_create_node("NODE_REQUIRE_STMT")
    IN  IF Matches(toks, ps0, "TOKEN_LPAREN")
        THEN LET c == Parse("expression", toks, parser_advance(toks, ps0), "solang")
                 req1 == [req EXCEPT !.condition = c.node]
                 msg == parser_current_token(toks, parser_advance(toks, c.ps))
             IN  IF Matches(toks, c.ps, "TOKEN_COMMA") /\ msg.type = "TOKEN_STRING"
                 THEN Ret([req1 EXCEPT !.value = msg.value],
                          parser_match(toks,
                              parser_advance(toks, parser_advance(toks, c.ps)),
                              "TOKEN_RPAREN"))
                 ELSE Ret(req1,
                          parser_match(toks,
                              parser_match(toks, c.ps, "TOKEN_COMMA"),
                              "TOKEN_RPAREN"))
        ELSE Ret(req, ps0)

solana_parser_parse(toks, ps) ==
    LET type == CurType(toks, ps)
    IN  CASE type = "TOKEN_PROGRAM" -> solana_parse_program_declaration(toks, ps)
          [] type = "TOKEN_INSTRUCTION" -> solana_parse_instruction_declaration(toks, ps)
          [] type = "TOKEN_ACCOUNT" -> solana_parse_account_declaration(toks, ps)
          [] type = "TOKEN_TRANSFER" -> solana_parse_transfer_statement(toks, ps)
          [] type = "TOKEN_REQUIRE" -> solana_parse_require_statement(toks, ps)
          [] OTHER -> Parse("statement", toks, ps, "solang")

\* so_lang.c declares parser_parse_program_declaration and
\* parser_parse_instruction_declaration and defines neither; the repository's
\* definitions of these two parsers are the solana_parse_* of so_lang_solana.h
parser_parse_program_declaration(toks, ps) ==
    solana_parse_program_declaration(toks, ps)
parser_parse_instruction_declaration(toks, ps) ==
    solana_parse_instruction_declaration(toks, ps)

parser_parse_statement(toks, ps, v) ==
    LET type == CurType(toks, ps)
        r == CASE v = "solang" /\ type = "TOKEN_PROGRAM" ->
                    parser_parse_program_declaration(toks, ps)
               [] v = "solang" /\ type = "TOKEN_INSTRUCTION" ->
                    parser_parse_instruction_declaration(toks, ps)
               [] v = "enhanced" /\ type = "TOKEN_FN" ->
                    parser_parse_function(toks, ps)
               [] type = "TOKEN_LET" -> ParseLet(toks, ps, v)
               [] type = "TOKEN_PRINT" -> ParsePrint(toks, ps, v)
               [] type = "TOKEN_IF" ->
                    IF v = "enhanced" THEN ParseIfEnhanced(toks, ps)
                                      ELSE ParseIfSolang(toks, ps)
               [] type = "TOKEN_RETURN" -> ParseReturn(toks, ps, v)
               [] OTHER -> Parse("expression", toks, ps, v)
    IN  IF r.ps.hang THEN r ELSE Ret(r.node, SkipTerminators(toks, r.ps))

parser_parse_expression(toks, ps, v) == parser_parse_binary(toks, ps, v)

\* one iteration of the while loop of parser_parse, on the root `root`;
\* so_lang.c stores without looking at child_count
ParseIteration(toks, ps, root, v) ==
    IF v = "enhanced" /\ Matches(toks, ps, "TOKEN_NEWLINE")
    THEN Ret(root, parser_advance(toks, ps))
    ELSE LET r == Parse("statement", toks, ps, v)
         IN  IF r.node # NULL /\ (v = "solang" \/ Len(root.children) < 200)
             THEN Ret([root EXCEPT !.children = Append(@, r.node)], r.ps)
             ELSE Ret(root, r.ps)

RECURSIVE ParseLoop(_, _, _, _)
ParseLoop(toks, ps, root, v) ==
    IF CurType(toks, ps) # "TOKEN_EOF"
    THEN LET r == ParseIteration(toks, ps, root, v)
         IN  IF r.ps.hang THEN r
             ELSE IF r.ps = ps /\ r.node = root
             THEN Ret(root, [ps EXCEPT !.hang = TRUE])
             ELSE ParseLoop(toks, r.ps, r.node, v)
    ELSE Ret(root, ps)

\* parser_parse as a whole
parser_parse(toks, ps, v) == ParseLoop(toks, ps, ast_create_node("NODE_PROGRAM"), v)

\* the routine named `routine` on the tokens toks in the parser state ps
Parse(routine, toks, ps, v) ==
    CASE routine = "primary" -> parser_parse_primary(toks, ps, v)
      [] routine = "expression" -> parser_parse_expression(toks, ps, v)
      [] routine = "block" -> parser_parse_block(toks, ps)
      [] routine = "solana" -> solana_parser_parse(toks, ps)
      [] routine = "statement" -> parser_parse_statement(toks, ps, v)
      [] routine = "program" -> parser_parse(toks, ps, v)

\* -------------------------------------------------------------------------
\* Classifier of so_lang.c.  It reads only node->children; it writes the
\* statics detected_solana and detected_program_name (<<>> is the null
\* pointer, <<name>> a name), which the state record es carries.
\* -------------------------------------------------------------------------
SolanaStatementKinds ==
    {"NODE_INSTRUCTION_DECL", "NODE_ACCOUNT_CONSTRAINT", "NODE_TRANSFER_STMT",
     "NODE_REQUIRE_STMT", "NODE_EMIT_STMT"}

RECURSIVE detect_solana_program(_, _)
RECURSIVE DetectChildren(_, _, _)

\* for (i = 0; i < child_count; i++) if (detect_solana_program(children[i])) return true;
DetectChildren(es, children, i) ==
    IF i > Len(children) THEN [ret |-> FALSE, es |-> es]
    ELSE LET r == detect_solana_program(es, children[i])
         IN  IF r.ret THEN r ELSE DetectChildren(r.es, children, i + 1)

detect_solana_program(es, ast) ==
    IF ast = NULL THEN [ret |-> FALSE, es |-> es]
    ELSE IF ast.type = "NODE_PROGRAM_DECL"
    THEN [ret |-> TRUE,
          es |-> [es EXCEPT !.detected_solana = TRUE,
                            !.detected_program_name = <<ast.value>>]]
    ELSE IF ast.type \in SolanaStatementKinds
    THEN [ret |-> TRUE, es |-> [es EXCEPT !.detected_solana = TRUE]]
    ELSE DetectChildren(es, ast.children, 1)

\* -------------------------------------------------------------------------
\* Emitters.  An emission state es is [out |-> what has been written to
\* compiler->output, one element per fprintf, c |-> the fields of the
\* Compiler, sc |-> the fields of the SolanaCompiler, in_function,
\* detected_solana, detected_program_name |-> the statics, skipped |-> the
\* kinds of the nodes for which the switch wrote nothing and did nothing
\* (an empty case or `default: break`), in the order they were met].
\* -------------------------------------------------------------------------
Out(es, fragments) == [es EXCEPT !.out = @ \o fragments]

Skipped(es, node) == [es EXCEPT !.skipped = Append(@, node.type)]

\* compiler_create of so_lang.c; the enhanced compiler sets to_rust only and
\* reads no other field
compiler_create(to_rust) ==
    [to_rust |-> to_rust, is_solana_program |-> FALSE, use_anchor |-> FALSE,
     detected_program_id |-> <<>>]

\* solana_compiler_create; pad is the byte of the malloc'ed block that lies
\* where a Compiler has use_anchor, which nothing initialises
solana_compiler_create(use_anchor, pad) ==
    [use_anchor |-> use_anchor, native_solana |-> ~use_anchor, pad |-> pad,
     program_name |-> <<>>, program_id |-> <<>>, instruction_count |-> 0]

NoCompiler == [to_rust |-> FALSE]
NoSolanaCompiler == [use_anchor |-> FALSE]

EmissionState(c, sc, in_fn, det, name) ==
    [out |-> <<>>, c |-> c, sc |-> sc, in_function |-> in_fn,
     detected_solana |-> det, detected_program_name |-> name, skipped |-> <<>>]

\* the bytes of the output file: the fragments one after the other
RECURSIVE Bytes(_)
Bytes(out) == IF out = <<>> THEN "" ELSE Head(out) \o Bytes(Tail(out))

\* Emit(emitter, es, node) is compiler_compile_node of so_lang.c ("solang"),
\* of the enhanced compiler ("enhanced"), or solana_compiler_compile ("solana")
RECURSIVE Emit(_, _, _)
RECURSIVE EmitChildren(_, _, _, _)

\* for (i = 0; i < child_count; i++) <emitter>(compiler, children[i]);
\* (the state after child i is named and compared, so that it is computed
\* before the next child is visited, as the loop does)
EmitChildren(emitter, es, children, i) ==
    IF i > Len(children) THEN es
    ELSE LET es1 == Emit(emitter, es, children[i])
         IN  IF es1 = es1 THEN EmitChildren(emitter, es1, children, i + 1)
             ELSE es1

\* compiler_emit_c_headers that writes nothing
compiler_emit_no_headers(es) == es

compiler_emit_c_headers(es) ==
    Out(es, <<"#include <stdio.h>\n", "#include <stdlib.h>\n",
              "#include <string.h>\n\n">>)

\* compiler_emit_rust_headers of so_lang.c
compiler_emit_rust_headers(es) ==
    IF es.c.is_solana_program
    THEN LET es1 == IF es.c.use_anchor
                    THEN Out(es, <<"use anchor_lang::prelude::*;\n",
                        "use anchor_spl::token::{self, Token, TokenAccount, Mint};\n\n">>)
                    ELSE Out(es, <<"use solana_program::{\n",
                        "    account_info::{next_account_info, AccountInfo},\n",
                        "    entrypoint,\n",
                        "    entrypoint::ProgramResult,\n",
                        "    msg,\n",
                        "    program_error::ProgramError,\n",
                        "    pubkey::Pubkey,\n",
                        "};\n\n",
                        "entrypoint!(process_instruction);\n\n">>)
         IN  IF es.c.detected_program_id # <<>>
             THEN Out(es1, <<"declare_id!(\"" \o es.c.detected_program_id[1]
                             \o "\");\n\n">>)
             ELSE es1
    ELSE Out(es, <<"fn main() {\n">>)

\* compiler_compile_node of so_lang.c on a node that is not null.  The switch
\* has two `case NODE_PROGRAM` labels; the first one is the one modelled.
SolangCompileNode(es, node) ==
    CASE node.type = "NODE_PROGRAM" ->
           LET d == detect_solana_program(es, node)
               es0 == [d.es EXCEPT !.c.is_solana_program = d.ret]
               es1 == IF es0.c.to_rust
                      THEN compiler_emit_rust_headers(es0)
                      ELSE Out(compiler_emit_c_headers(es0), <<"int main() {\n">>)
               es2 == EmitChildren("solang", es1, node.children, 1)
           IN  IF es2.c.to_rust
               THEN IF ~es2.c.is_solana_program THEN Out(es2, <<"}\n">>) ELSE es2
               ELSE Out(es2, <<"    return 0;\n}\n">>)
      [] node.type = "NODE_PROGRAM_DECL" ->
           LET es0 == [es EXCEPT !.c.is_solana_program = TRUE,
                                 !.c.detected_program_id =
                                     IF node.program_id # <<>> THEN node.program_id ELSE @]
               es1 == IF es0.c.use_anchor
                      THEN Out(es0, <<"#[program]\n",
                                      "pub mod " \o node.value \o " {\n",
                                      "    use super::*;\n\n">>)
                      ELSE Out(es0, <<"pub fn process_instruction(\n",
                                      "    program_id: &Pubkey,\n",
                                      "    accounts: &[AccountInfo],\n",
                                      "    instruction_data: &[u8],\n",
                                      ") -> ProgramResult {\n">>)
               es2 == EmitChildren("solang", es1, node.children, 1)
           IN  IF es2.c.use_anchor THEN Out(es2, <<"}\n">>)
               ELSE Out(es2, <<"    Ok(())\n", "}\n">>)
      [] node.type = "NODE_INSTRUCTION_DECL" ->
           IF es.c.use_anchor
           THEN Out(Emit("solang",
                         Out(es, <<"    pub fn " \o node.value \o "(ctx: Context<"
                                   \o node.value \o "Context>) -> Result<()> {\n">>),
                         node.left),
                    <<"        Ok(())\n", "    }\n\n">>)
           ELSE Emit("solang",
                     Out(es, <<"    // Instruction: " \o node.value \o "\n",
                               "    msg!(\"Executing " \o node.value \o "\");\n">>),
                     node.left)
      [] node.type = "NODE_ACCOUNT_CONSTRAINT" -> Skipped(es, node)
      [] node.type = "NODE_VAR_DECL" ->
           Out(Emit("solang",
                    Out(es, <<(IF es.c.to_rust THEN "    let " ELSE "    int ")
                              \o node.value \o " = ">>),
                    node.right),
               <<";\n">>)
      [] node.type = "NODE_PRINT_STMT" ->
           LET es1 == Out(es, <<IF es.c.to_rust THEN "    println!(\"{}\""
                                ELSE "    printf(\"%d\\n\", ">>)
           IN  Out(IF node.left # NULL
                   THEN Emit("solang",
                             IF es.c.to_rust THEN Out(es1, <<", ">>) ELSE es1,
                             node.left)
                   ELSE es1,
                   <<");\n">>)
      [] node.type = "NODE_BINARY_OP" ->
           Emit("solang",
                Out(Emit("solang", es, node.left), <<" " \o node.value \o " ">>),
                node.right)
      [] node.type = "NODE_NUMBER" -> Out(es, <<node.value>>)
      [] node.type = "NODE_STRING" -> Out(es, <<"\"" \o node.value \o "\"">>)
      [] node.type = "NODE_IDENTIFIER" -> Out(es, <<node.value>>)
      [] OTHER -> Skipped(es, node)

\* compiler_compile_function without the default return after a body that
\* ends with a return statement
compiler_compile_function_no_default(es, func) ==
    LET es1 == Out(es, <<(IF es.c.to_rust THEN "fn " ELSE "int ") \o func.value
                         \o (IF es.c.to_rust THEN "() -> i32 {\n" ELSE "() {\n")>>)
        es2 == IF func.left # NULL
               THEN [EmitChildren("enhanced", [es1 EXCEPT !.in_function = TRUE],
                                  func.left.children, 1)
                        EXCEPT !.in_function = FALSE]
               ELSE es1
    IN  IF func.left # NULL /\ func.left.children # <<>>
           /\ func.left.children[Len(func.left.children)].type = "NODE_RETURN_STMT"
        THEN Out(es2, <<"}\n\n">>)
        ELSE Out(es2, <<IF es.c.to_rust THEN "    0\n" ELSE "    return 0;\n", "}\n\n">>)

\* compiler_compile_function of the enhanced compiler
compiler_compile_function(es, func) ==
    LET es1 == Out(es, <<(IF es.c.to_rust THEN "fn " ELSE "int ") \o func.value
                         \o (IF es.c.to_rust THEN "() -> i32 {\n" ELSE "() {\n")>>)
        es2 == IF func.left # NULL
               THEN [EmitChildren("enhanced", [es1 EXCEPT !.in_function = TRUE],
                                  func.left.children, 1)
                        EXCEPT !.in_function = FALSE]
               ELSE es1
    IN  Out(es2, <<IF es.c.to_rust THEN "    0\n" ELSE "    return 0;\n", "}\n\n">>)

\* EmitTopLevel without the hoisting: the pass over the functions writes
\* nothing and the other pass writes every child where it stands
RECURSIVE EmitTopLevelInOrder(_, _, _, _)
EmitTopLevelInOrder(es, children, i, functions) ==
    IF i > Len(children) \/ functions THEN es
    ELSE EmitTopLevelInOrder(
             IF children[i].type = "NODE_FUNC_DECL"
             THEN compiler_compile_function(es, children[i])
             ELSE Emit("enhanced", es, children[i]),
             children, i + 1, functions)

\* the loops of NODE_PROGRAM of the enhanced compiler over the children that
\* are function declarations (functions = TRUE) or are not (functions = FALSE)
RECURSIVE EmitTopLevel(_, _, _, _)
EmitTopLevel(es, children, i, functions) ==
    IF i > Len(children) THEN es
    ELSE LET es1 == IF functions /\ children[i].type = "NODE_FUNC_DECL"
                    THEN compiler_compile_function(es, children[i])
                    ELSE IF ~functions /\ children[i].type # "NODE_FUNC_DECL"
                    THEN Emit("enhanced", es, children[i])
                    ELSE es
         IN  IF es1 = es1 THEN EmitTopLevel(es1, children, i + 1, functions)
             ELSE es1

\* fprintf(output, "    "); compiler_compile_node(compiler, children[i]);
RECURSIVE EmitIndented(_, _, _)
EmitIndented(es, children, i) ==
    IF i > Len(children) THEN es
    ELSE LET es1 == Emit("enhanced", Out(es, <<"    ">>), children[i])
         IN  IF es1 = es1 THEN EmitIndented(es1, children, i + 1)
             ELSE es1

\* compiler_compile_node of the enhanced compiler on a node that is not null
EnhancedCompileNode(es, node) ==
    CASE node.type = "NODE_PROGRAM" ->
           LET es1 == IF es.in_function THEN es
                      ELSE IF es.c.to_rust
                      THEN Out(EmitTopLevel(es, node.children, 1, TRUE),
                               <<"fn main() {\n">>)
                      ELSE Out(EmitTopLevel(compiler_emit_c_headers(es),
                                            node.children, 1, TRUE),
                               <<"int main() {\n">>)
               es2 == EmitTopLevel(es1, node.children, 1, FALSE)
           IN  IF es2.in_function THEN es2
               ELSE IF es2.c.to_rust THEN Out(es2, <<"}\n">>)
               ELSE Out(es2, <<"    return 0;\n}\n">>)
      [] node.type = "NODE_FUNC_DECL" -> Skipped(es, node)
      [] node.type = "NODE_VAR_DECL" ->
           LET es1 == Out(es, <<(IF es.c.to_rust THEN "    let " ELSE "    int ")
                                \o node.value \o " = ">>)
           IN  Out(IF node.right # NULL THEN Emit("enhanced", es1, node.right)
                   ELSE Out(es1, <<"0">>),
                   <<";\n">>)
      [] node.type = "NODE_PRINT_STMT" ->
           LET es1 == Out(es, <<IF es.c.to_rust THEN "    println!(\"{}\""
                                ELSE "    printf(\"%d\\n\", ">>)
           IN  Out(IF node.left # NULL
                   THEN Emit("enhanced",
                             IF es.c.to_rust THEN Out(es1, <<", ">>) ELSE es1,
                             node.left)
                   ELSE es1,
                   <<");\n">>)
      [] node.type = "NODE_IF_STMT" ->
           LET es1 == Emit("enhanced",
                           Out(es, <<IF es.c.to_rust THEN "    if " ELSE "    if (">>),
                           node.condition)
               es2 == Out(IF es.c.to_rust THEN es1 ELSE Out(es1, <<")">>), <<" {\n">>)
               es3 == Out(IF node.then_branch # NULL
                          THEN EmitIndented(es2, node.then_branch.children, 1)
                          ELSE es2,
                          <<"    }">>)
           IN  Out(IF node.else_branch # NULL
                   THEN Out(IF node.else_branch.type = "NODE_IF_STMT"
                            THEN Emit("enhanced",
                                      Out(es3, <<" else {\n", "    ">>),
                                      node.else_branch)
                            ELSE EmitIndented(Out(es3, <<" else {\n">>),
                                              node.else_branch.children, 1),
                            <<"    }">>)
                   ELSE es3,
                   <<"\n">>)
      [] node.type = "NODE_RETURN_STMT" ->
           LET es1 == Out(es, <<"    return ">>)
           IN  Out(IF node.left # NULL THEN Emit("enhanced", es1, node.left)
                   ELSE Out(es1, <<"0">>),
                   <<";\n">>)
      [] node.type = "NODE_BINARY_OP" ->
           Emit("enhanced",
                Out(Emit("enhanced", es, node.left), <<" " \o node.value \o " ">>),
                node.right)
      [] node.type = "NODE_NUMBER" -> Out(es, <<node.value>>)
      [] node.type = "NODE_STRING" -> Out(es, <<"\"" \o node.value \o "\"">>)
      [] node.type = "NODE_IDENTIFIER" -> Out(es, <<node.value>>)
      [] node.type = "NODE_FUNC_CALL" -> Out(es, <<node.value \o "()">>)
      [] OTHER -> Skipped(es, node)

\* compiler_compile_node of the compiler v: if (!node) return;
compiler_compile_node(es, node, v) ==
    IF node = NULL THEN es
    ELSE IF v = "enhanced" THEN EnhancedCompileNode(es, node)
    ELSE SolangCompileNode(es, node)

\* what fprintf("%s") writes for a name pointer: the name, or "(null)" for the
\* null pointer a declaration without a name leaves
NameOrNull(node) == IF node.value = "" THEN "(null)" ELSE node.value

emit_anchor_imports(es) ==
    Out(es, <<"use anchor_lang::prelude::*;\n",
              "use anchor_spl::token::{self, Token, TokenAccount, Mint};\n",
              "use anchor_spl::associated_token::AssociatedToken;\n",
              "\n">>)

emit_native_solana_imports(es) ==
    Out(es, <<"use solana_program::{\n",
              "    account_info::{next_account_info, AccountInfo},\n",
              "    entrypoint,\n",
              "    entrypoint::ProgramResult,\n",
              "    msg,\n",
              "    program_error::ProgramError,\n",
              "    pubkey::Pubkey,\n",
              "    system_instruction,\n",
              "    program::{invoke, invoke_signed},\n",
              "};\n",
              "\n">>)

emit_program_structure(es, prog) ==
    IF es.sc.use_anchor
    THEN Out(es, <<"#[program]\n", "pub mod " \o prog.value \o " {\n",
                   "    use super::*;\n\n">>
                 \o (IF prog.program_id # <<>>
                     THEN <<"    declare_id!(\"" \o prog.program_id[1] \o "\");\n\n">>
                     ELSE <<>>))
    ELSE Out(es, <<"entrypoint!(process_instruction);\n\n">>
                 \o (IF prog.program_id # <<>>
                     THEN <<"declare_id!(\"" \o prog.program_id[1] \o "\");\n\n">>
                     ELSE <<>>)
                 \o <<"pub fn process_instruction(\n",
                      "    program_id: &Pubkey,\n",
                      "    accounts: &[AccountInfo],\n",
                      "    instruction_data: &[u8],\n",
                      ") -> ProgramResult {\n">>)

\* the line of emit_instruction_handler that carries the opcode
OpcodeArm(opcode) == "        " \o ToString(opcode) \o " => {\n"

emit_instruction_handler(es, instruction) ==
    LET es1 ==
          IF es.sc.use_anchor
          THEN LET es0 == Out(es, <<"    pub fn " \o NameOrNull(instruction)
                                    \o "(ctx: Context<" \o NameOrNull(instruction)
                                    \o "Context>) -> Result<()> {\n">>)
               IN  Out(IF instruction.left # NULL
                       THEN Emit("solana",
                                 Out(es0, <<"        // Generated instruction logic\n">>),
                                 instruction.left)
                       ELSE es0,
                       <<"        Ok(())\n", "    }\n\n">>)
          ELSE Out(Emit("solana",
                        Out(es, <<"    match instruction_data[0] {\n",
                                  OpcodeArm(es.sc.instruction_count),
                                  "            msg!(\"Executing "
                                      \o NameOrNull(instruction) \o "\");\n">>),
                        instruction.left),
                   <<"        },\n", "    }\n">>)
    IN  [es1 EXCEPT !.sc.instruction_count = @ + 1]

\* the loop of emit_account_validation over the accounts of a context
RECURSIVE AccountFields(_, _, _)
AccountFields(es, children, i) ==
    IF i > Len(children) THEN es
    ELSE LET account == children[i]
         IN  AccountFields(
                 Out(es, <<"    #[account(">>
                         \o (IF account.is_signer THEN <<"signer, ">> ELSE <<>>)
                         \o (IF account.is_writable THEN <<"mut, ">> ELSE <<>>)
                         \o (IF account.is_init
                             THEN <<"init, payer = payer, space = 8 + 32, ">>
                             ELSE <<>>)
                         \o <<")]\n",
                              "    pub " \o NameOrNull(account) \o ": Account<'info, ",
                              IF account.solana_type = "SOLANA_TYPE_PUBKEY"
                              THEN "Pubkey" ELSE "AccountInfo",
                              ">,\n">>),
                 children, i + 1)

\* accounts->instruction_name is null in every node the parsers build
emit_account_validation(es, accounts) ==
    IF es.sc.use_anchor
    THEN Out(AccountFields(
                 Out(es, <<"#[derive(Accounts)]\n",
                           "pub struct (null)Context<'info> {\n">>),
                 accounts.children, 1),
             <<"}\n\n">>)
    ELSE es

\* the loop of emit_state_structure over the fields of a state
RECURSIVE StateFields(_, _, _)
StateFields(es, children, i) ==
    IF i > Len(children) THEN es
    ELSE LET field == children[i]
         IN  StateFields(
                 Out(es, <<"    pub " \o field.value \o ": ",
                           CASE field.solana_type = "SOLANA_TYPE_PUBKEY" -> "Pubkey"
                             [] field.solana_type = "SOLANA_TYPE_U32" -> "u32"
                             [] field.solana_type = "SOLANA_TYPE_BOOL" -> "bool"
                             [] field.solana_type = "SOLANA_TYPE_STRING" -> "String"
                             [] OTHER -> "u64",
                           ",\n">>),
                 children, i + 1)

emit_state_structure(es, state) ==
    Out(StateFields(
            Out(es, (IF es.sc.use_anchor THEN <<"#[account]\n">> ELSE <<>>)
                    \o <<"#[derive(Clone, Debug, PartialEq)]\n",
                         "pub struct " \o state.value \o " {\n">>),
            state.children, 1),
        <<"}\n\n">>)

\* (Compiler*)compiler: the fields a Compiler has where the SolanaCompiler has
\* its own, and the SolanaCompiler after the callee wrote through that pointer
CastToCompiler(sc) ==
    [to_rust |-> sc.use_anchor, is_solana_program |-> sc.native_solana,
     use_anchor |-> sc.pad, detected_program_id |-> sc.program_name]

CastToSolanaCompiler(sc, c) ==
    [sc EXCEPT !.use_anchor = c.to_rust, !.native_solana = c.is_solana_program,
               !.pad = c.use_anchor, !.program_name = c.detected_program_id]

solana_compiler_compile(es, ast) ==
    IF ast = NULL THEN es
    ELSE
    CASE ast.type = "NODE_PROGRAM_DECL" ->
           LET es1 == emit_program_structure(
                          IF es.sc.use_anchor THEN emit_anchor_imports(es)
                          ELSE emit_native_solana_imports(es), ast)
               es2 == EmitChildren("solana", es1, ast.children, 1)
           IN  IF es2.sc.use_anchor THEN Out(es2, <<"}\n">>)
               ELSE Out(es2, <<"    Ok(())\n", "}\n">>)
      [] ast.type = "NODE_INSTRUCTION_DECL" -> emit_instruction_handler(es, ast)
      [] ast.type = "NODE_ACCOUNT_DECL" -> emit_account_validation(es, ast)
      [] ast.type = "NODE_STATE_DECL" -> emit_state_structure(es, ast)
      [] ast.type = "NODE_TRANSFER_STMT" ->
           IF es.sc.use_anchor
           THEN Out(es, <<"        token::transfer(\n",
                          "            CpiContext::new(\n",
                          "                ctx.accounts.token_program.to_account_info(),\n",
                          "                token::Transfer {\n",
                          "                    from: ctx.accounts.from.to_account_info(),\n",
                          "                    to: ctx.accounts.to.to_account_info(),\n",
                          "                    authority: ctx.accounts.authority.to_account_info(),\n",
                          "                },\n",
                          "            ),\n",
                          "            amount,\n",
                          "        )?;\n">>)
           ELSE Out(es, <<"            let instruction = system_instruction::transfer(\n",
                          "                from.key,\n",
                          "                to.key,\n",
                          "                amount,\n",
                          "            );\n",
                          "            invoke(&instruction, &[from.clone(), to.clone()])?;\n">>)
      [] ast.type = "NODE_REQUIRE_STMT" ->
           IF es.sc.use_anchor
           THEN Out(Emit("solana", Out(es, <<"        require!(">>), ast.condition),
                    <<", ErrorCode::CustomError);\n">>)
           ELSE Out(Emit("solana", Out(es, <<"            if !(">>), ast.condition),
                    <<") {\n",
                      "                return Err(ProgramError::InvalidArgument);\n",
                      "            }\n">>)
      [] ast.type = "NODE_PRINT_STMT" ->
           Out(es, <<"        msg!(\"">>
                   \o (IF ast.left # NULL THEN <<"Debug: {}\"">> ELSE <<>>)
                   \o <<");\n">>)
      [] OTHER ->
           LET es1 == Emit("solang", [es EXCEPT !.c = CastToCompiler(es.sc)], ast)
           IN  [es1 EXCEPT !.c = es.c, !.sc = CastToSolanaCompiler(es1.sc, es1.c)]

Emit(emitter, es, node) ==
    CASE emitter = "solana" -> solana_compiler_compile(es, node)
      [] OTHER -> compiler_compile_node(es, node, emitter)

\* compiler_compile of the compiler v
compiler_compile(es, ast, v) == Emit(v, es, ast)

\* -------------------------------------------------------------------------
\* Values of the variables a specification does not use
\* -------------------------------------------------------------------------
NoLexer == lexer_create(<<>>)
NoParser == [pos |-> 0]
NoLocals == [to_rust |-> FALSE]
NoStatics == [detected_solana |-> FALSE, detected_program_name |-> <<>>,
              in_function |-> FALSE]

\* the variables of main in the specifications that run one stage alone
MainIdle ==
    /\ source = <<>>
    /\ argv = <<>>
    /\ locals = NoLocals
    /\ statics = NoStatics
    /\ compiler = NoCompiler
    /\ output = <<>>
    /\ skipped = <<>>
    /\ calls = <<>>
    /\ exit_code = -1
    /\ emitted = <<>>
    /\ run = 1

\* -------------------------------------------------------------------------
\* SpecLex: lexer_tokenize, one loop iteration per step
\* -------------------------------------------------------------------------
MaxSrcLen == 3
LexAlphabet == {"a", "1", ".", " ", "\n", "\"", "=", "$", "/", "\\", ";"}

Repeat(c, n) == [i \in 1..n |-> c]
SeqsUpTo(S, n) == UNION {[1..k -> S] : k \in 0..n}

\* the names and the numbers of the sources `let NAME = NUMBER`
LetNames ==
    {<<"a">>, <<"x", "1">>, <<"_", "a">>, <<"l", "e", "t", "s">>,
     <<"i", "f", "_">>, Repeat("a", MAX_TOKEN_LEN - 1), Repeat("a", MAX_TOKEN_LEN)}

LetNumbers ==
    {<<"1">>, <<"4", "2">>, <<"0", "0", "7">>,
     Repeat("1", MAX_TOKEN_LEN - 1), Repeat("1", MAX_TOKEN_LEN)}

LetSource(name, number) ==
    <<"l", "e", "t", " ">> \o name \o <<" ", "=", " ">> \o number

\* sources with a line comment after a token, ended by a newline or by the end
\* of the input
CommentSources ==
    {<<"1", " ", "/", "/", " ", "a", "$", "\n", "a">>,
     <<"1", " ", "/", "/", " ", "a", "$">>}

\* n times the two characters of the escape sequence \n
RECURSIVE Escapes(_)
Escapes(n) ==
    IF n = 0 THEN <<>>
    ELSE IF n = 1 THEN <<"\\", "n">>
    ELSE Escapes(n \div 2) \o Escapes(n - n \div 2)

\* strings of MAX_TOKEN_LEN - 1 and MAX_TOKEN_LEN letters or escape
\* sequences, closed by a quote or cut off by the end of the input
StringSources ==
    {<<"\"">> \o body \o end :
        body \in {Repeat("a", n) : n \in {MAX_TOKEN_LEN - 1, MAX_TOKEN_LEN}}
                 \cup {Escapes(n) : n \in {MAX_TOKEN_LEN - 1, MAX_TOKEN_LEN}},
        end \in {<<>>, <<"\"">>}}

\* short sources over the alphabet, sources of MAX_TOKENS - 1 and MAX_TOKENS
\* one-character tokens, sources that are one identifier or one number of
\* MAX_TOKEN_LEN - 1 and MAX_TOKEN_LEN characters, and the sources
\* `let NAME = NUMBER`
LexSources ==
    SeqsUpTo(LexAlphabet, MaxSrcLen)
        \cup {Repeat(";", n) : n \in {MAX_TOKENS - 1, MAX_TOKENS}}
        \cup {Repeat(c, n) : c \in {"a", "1"},
                             n \in {MAX_TOKEN_LEN - 1, MAX_TOKEN_LEN}}
        \cup {LetSource(name, number) : name \in LetNames, number \in LetNumbers}
        \cup CommentSources
        \cup StringSources

LexInit ==
    /\ variant \in Variants
    /\ pc = "lexing"
    /\ has_error = FALSE
    /\ \E src \in LexSources : lexer = lexer_create(src)
    /\ tokens = <<>>
    /\ parser = NoParser
    /\ program = NULL
    /\ function_names = <<>>
    /\ iters = 0
    /\ MainIdle

LexIter ==
    /\ pc = "lexing"
    /\ lexer_current_char(lexer) # NUL
    /\ LET st == LexerStep([lexer |-> lexer, has_error |-> has_error], variant)
       IN  /\ lexer' = st.lexer
           /\ has_error' = st.has_error
    /\ UNCHANGED <<variant, pc, parseVars, mainVars>>

LexEnd ==
    /\ pc = "lexing"
    /\ lexer_current_char(lexer) = NUL
    /\ LET st == LexerFinish([lexer |-> lexer, has_error |-> has_error])
       IN  /\ lexer' = st.lexer
           /\ has_error' = st.has_error
    /\ pc' = "lexed"
    /\ UNCHANGED <<variant, parseVars, mainVars>>

LexNext == LexIter \/ LexEnd

SpecLex == LexInit /\ [][LexNext]_vars

\* C2: when lexer_tokenize has returned, tokens[0..token_count-1] ends with
\* the end-of-input token and holds no end-of-input token before it, also for
\* a source of MAX_TOKENS or more tokens.
C2_TokensEndWithEof ==
    pc = "lexed" =>
        LET t == lexer.tokens
        IN  /\ Len(t) > 0
            /\ t[Len(t)].type = "TOKEN_EOF"
            /\ \A i \in 1..(Len(t) - 1) : t[i].type # "TOKEN_EOF"

\* the same for the sources that stay below MAX_TOKENS tokens
C2_EofWhenRoom ==
    (pc = "lexed" /\ ~has_error) =>
        LET t == lexer.tokens
        IN  /\ Len(t) > 0
            /\ t[Len(t)].type = "TOKEN_EOF"
            /\ \A i \in 1..(Len(t) - 1) : t[i].type # "TOKEN_EOF"

\* the lexemes of the tokens t one after the other
RECURSIVE Lexemes(_)
Lexemes(t) ==
    IF t = <<>> THEN ""
    ELSE IF Len(t) = 1 THEN t[1].value
    ELSE Lexemes(SubSeq(t, 1, Len(t) \div 2))
         \o Lexemes(SubSeq(t, Len(t) \div 2 + 1, Len(t)))

Blank(c) == isspace(c) /\ c # "\n"
NotBlank(c) == ~Blank(c)

\* C15: the lexer drops no character silently: a character is insignificant
\* whitespace, part of a skipped comment, a string delimiter, part of the
\* lexeme of a token, or recorded as a lexical error, also in an identifier or
\* number longer than MAX_TOKEN_LEN - 1.  So when no error was recorded on a
\* source without quote, slash or backslash, the lexemes of the tokens spell,
\* in order, the source without its insignificant whitespace.
C15_NoCharacterDropped ==
    (pc = "lexed" /\ ~has_error
         /\ \A i \in 1..Len(lexer.source) :
                lexer.source[i] \notin {"\"", "/", "\\"}) =>
        Lexemes(lexer.tokens) = Text(SelectSeq(lexer.source, NotBlank))

\* the positions of the character c in the string s
Places(s, c) == {k \in 1..Len(s) : SubSeq(s, k, k) = c}

\* C20: the lexeme of every Number token is a run of digits with at most one
\* decimal point: a second "." met while a number is read is not made part
\* of the same lexeme.
C20_NumberHasOneDot ==
    \A i \in 1..Len(lexer.tokens) :
        lexer.tokens[i].type = "TOKEN_NUMBER" =>
            LET s == lexer.tokens[i].value
            IN  /\ \A k \in 1..Len(s) : SubSeq(s, k, k) \in Digits \cup {"."}
                /\ Cardinality(Places(s, ".")) <= 1

\* C27: in lexer_read_string the write index into the lexeme buffer never
\* exceeds MAX_TOKEN_LEN - 1, also for unterminated strings and for strings
\* of escape sequences longer than the buffer: the lexeme of a String token,
\* which ends at the last write index, has at most MAX_TOKEN_LEN - 1
\* characters, and a source that is one string gives its token and no error.
C27_StringIndexBounded ==
    /\ \A i \in 1..Len(lexer.tokens) :
           lexer.tokens[i].type = "TOKEN_STRING" =>
               Len(lexer.tokens[i].value) <= MAX_TOKEN_LEN - 1
    /\ (pc = "lexed" /\ lexer.source \in StringSources) =>
           /\ ~has_error
           /\ Len(lexer.tokens) = 2
           /\ lexer.tokens[1].type = "TOKEN_STRING"

\* the kinds and the lexemes of the tokens t
KindsAndLexemes(t) == [i \in 1..Len(t) |-> <<t[i].type, t[i].value>>]

\* position k of src lies in a line comment: a "//" at or before it with no
\* newline in between
InComment(src, k) ==
    \E j \in 1..k :
        /\ j < Len(src)
        /\ src[j] = "/"
        /\ src[j + 1] = "/"
        /\ \A m \in j..k : src[m] # "\n"

\* src without its line comments
Uncommented(src) ==
    LET kept == {k \in 1..Len(src) : ~InComment(src, k)}
        Nth[n \in 0..Len(src)] ==
            IF n = 0 THEN 0
            ELSE CHOOSE k \in kept : k > Nth[n - 1] /\ \A m \in kept : m > Nth[n - 1] => k <= m
    IN  IF \A j \in 1..(Len(src) - 1) : src[j] # "/" \/ src[j + 1] # "/"
        THEN src
        ELSE [n \in 1..Cardinality(kept) |-> src[Nth[n]]]

\* C21: a line comment produces no token and no error: on a source without
\* string delimiter, the tokens and the error flag are those of the source
\* with the characters from "//" up to the next newline or the end of the
\* input taken out, so the newline that ends a comment still gives its token.
C21_CommentGivesNoToken ==
    (pc = "lexed" /\ \A i \in 1..Len(lexer.source) : lexer.source[i] # "\"") =>
        LET st == lexer_tokenize([lexer |-> lexer_create(Uncommented(lexer.source)),
                                  has_error |-> FALSE], variant)
        IN  /\ KindsAndLexemes(lexer.tokens) = KindsAndLexemes(st.lexer.tokens)
            /\ has_error = st.has_error

LetTokens(name, number) ==
    <<<<"TOKEN_LET", "let">>, <<"TOKEN_IDENTIFIER", Text(name)>>,
      <<"TOKEN_ASSIGN", "=">>, <<"TOKEN_NUMBER", Text(number)>>,
      <<"TOKEN_EOF", "">>>>

MaxToks == 3

Tok(type, value) == [type |-> type, value |-> value, line |-> 1, column |-> 1]

ParseAlphabet ==
    {Tok("TOKEN_IDENTIFIER", "x"), Tok("TOKEN_NUMBER", "1"), Tok("TOKEN_PLUS", "+"),
     Tok("TOKEN_ASSIGN", "="), Tok("TOKEN_LPAREN", "("), Tok("TOKEN_RPAREN", ")"),
     Tok("TOKEN_LBRACE", "{"), Tok("TOKEN_RBRACE", "}"), Tok("TOKEN_NEWLINE", "\n"),
     Tok("TOKEN_LET", "let"), Tok("TOKEN_IF", "if"), Tok("TOKEN_ELSE", "else"),
     Tok("TOKEN_FN", "fn"), Tok("TOKEN_PRINT", "print"), Tok("TOKEN_RETURN", "return"),
     Tok("TOKEN_PROGRAM", "program"), Tok("TOKEN_INSTRUCTION", "instruction")}

EofToken == Tok("TOKEN_EOF", "")

\* the short token sequences, and as many one-token statements as the root
\* of either parser has slots for its children, and one more
ParseInputs ==
    {Append(t, EofToken) : t \in SeqsUpTo(ParseAlphabet, MaxToks)}
        \cup {Append(Repeat(Tok("TOKEN_IDENTIFIER", "x"), n), EofToken) :
                 n \in {100, 101, 200, 201}}

ParserState == [pos |-> parser.pos, has_error |-> has_error,
                function_names |-> function_names, hang |-> FALSE]

ParseInit ==
    /\ variant \in Variants
    /\ pc = "parsing"
    /\ has_error = FALSE
    /\ lexer = NoLexer
    /\ tokens \in ParseInputs
    /\ parser = NoParser
    /\ program = ast_create_node("NODE_PROGRAM")
    /\ function_names = <<>>
    /\ iters = 0
    /\ MainIdle

\* an iteration of the loop of parser_parse; an iteration that ends in the
\* state it started in, or that never ends, leaves the parser hung
ParseIter ==
    /\ pc = "parsing"
    /\ CurType(tokens, ParserState) # "TOKEN_EOF"
    /\ \E r \in {ParseIteration(tokens, ParserState, program, variant)} :
           /\ parser' = [pos |-> r.ps.pos]
           /\ has_error' = r.ps.has_error
           /\ function_names' = r.ps.function_names
           /\ program' = r.node
           /\ pc' = IF r.ps.hang \/ (r.ps = ParserState /\ r.node = program)
                    THEN "hung" ELSE "parsing"
    /\ iters' = iters + 1
    /\ UNCHANGED <<variant, lexer, tokens, mainVars>>

ParseEnd ==
    /\ pc = "parsing"
    /\ CurType(tokens, ParserState) = "TOKEN_EOF"
    /\ pc' = "parsed"
    /\ UNCHANGED <<variant, has_error, lexer, parseVars, mainVars>>

ParseNext == ParseIter \/ ParseEnd

SpecParse == ParseInit /\ [][ParseNext]_vars

\* C1: parser_parse terminates on every token sequence that ends with the
\* end-of-input token: no loop of the parser hangs, and every iteration of the
\* top-level loop has consumed at least one token.
C1_ParserTerminates == pc # "hung" /\ iters <= parser.pos

\* C18: the cursor of the parser never steps past the end marker: in every
\* reachable state 0 <= pos <= token_count - 1; from every position inside the
\* tokens parser_advance stays inside them and leaves the last position
\* unchanged; and parser_current_token returns one of the tokens.
C18_CursorInsideTokens ==
    /\ parser.pos \in 0..(Len(tokens) - 1)
    /\ \A p \in 0..(Len(tokens) - 1) :
           LET ps == [ParserState EXCEPT !.pos = p]
           IN  /\ parser_advance(tokens, ps).pos \in p..(Len(tokens) - 1)
               /\ p = Len(tokens) - 1 => parser_advance(tokens, ps) = ps
               /\ parser_current_token(tokens, ps) = tokens[p + 1]

\* the parser has consumed the longest token sequence and rests on the end
\* marker
C18_CursorOnEndMarker ==
    /\ pc = "parsed"
    /\ iters > 0
    /\ Len(tokens) = MaxToks + 1
    /\ parser.pos = Len(tokens) - 1

\* the number of slots parser_parse allocates for the children of the root
RootSlots(v) == IF v = "solang" THEN 100 ELSE 200

\* C26: while parsing, the number of children stored in the root never
\* exceeds the number of slots allocated for them (100 in so_lang.c, 200 in
\* the enhanced parser), and every statement that was parsed is in the tree:
\* a sequence of n one-token statements gives a root with n children.
C26_ChildrenFitAndKept ==
    /\ Len(program.children) <= RootSlots(variant)
    /\ (pc = "parsed"
           /\ \A i \in 1..(Len(tokens) - 1) : tokens[i].type = "TOKEN_IDENTIFIER") =>
          Len(program.children) = Len(tokens) - 1

\* -------------------------------------------------------------------------
\* SpecExpr: parser_parse_expression on the tokens of an expression, from the
\* first token; program holds the node it returns
\* -------------------------------------------------------------------------
MaxExprToks == 7

ExprAlphabet ==
    {Tok("TOKEN_IDENTIFIER", "x"), Tok("TOKEN_NUMBER", "1"), Tok("TOKEN_PLUS", "+"),
     Tok("TOKEN_MULTIPLY", "*"), Tok("TOKEN_LPAREN", "("), Tok("TOKEN_RPAREN", ")")}

ExprInputs == {Append(t, EofToken) : t \in SeqsUpTo(ExprAlphabet, MaxExprToks)}

ExprInit ==
    /\ variant \in Variants
    /\ pc = "expression"
    /\ has_error = FALSE
    /\ lexer = NoLexer
    /\ tokens \in ExprInputs
    /\ parser = NoParser
    /\ program = NULL
    /\ function_names = <<>>
    /\ iters = 0
    /\ MainIdle

ExprParse ==
    /\ pc = "expression"
    /\ \E r \in {parser_parse_expression(tokens, ParserState, variant)} :
           /\ parser' = [pos |-> r.ps.pos]
           /\ has_error' = r.ps.has_error
           /\ function_names' = r.ps.function_names
           /\ program' = r.node
           /\ pc' = IF r.ps.hang THEN "hung" ELSE "parsed"
    /\ UNCHANGED <<variant, lexer, tokens, iters, mainVars>>

ExprNext == ExprParse

SpecExpr == ExprInit /\ [][ExprNext]_vars

PrimaryTokens == {"TOKEN_NUMBER", "TOKEN_STRING", "TOKEN_IDENTIFIER"}

\* the node parser_parse_primary makes of a primary token not followed by "("
Leaf(token) ==
    [ast_create_node(CASE token.type = "TOKEN_NUMBER" -> "NODE_NUMBER"
                       [] token.type = "TOKEN_STRING" -> "NODE_STRING"
                       [] OTHER -> "NODE_IDENTIFIER")
        EXCEPT !.value = token.value]

\* C19: parser_parse_expression applies at most one binary operator: on the
\* tokens p1 op1 p2 op2 ... (primaries and binary operators, no parentheses)
\* it returns BinaryOp(op1, p1, p2) and leaves the cursor on op2; and the
\* BinaryOp it returns has a BinaryOp as an operand only where the tokens had
\* a parenthesized sub-expression in the place of that operand.
C19_OneBinaryOperator ==
    pc = "parsed" =>
        /\ (/\ Len(tokens) >= 5
            /\ tokens[1].type \in PrimaryTokens
            /\ tokens[2].type \in BinaryOps
            /\ tokens[3].type \in PrimaryTokens
            /\ tokens[4].type \in BinaryOps)
           => /\ program = [ast_create_node("NODE_BINARY_OP") EXCEPT
                               !.value = tokens[2].value,
                               !.left = Leaf(tokens[1]),
                               !.right = Leaf(tokens[3])]
              /\ parser.pos = 3
        /\ program.type = "NODE_BINARY_OP" =>
              /\ program.left.type = "NODE_BINARY_OP" =>
                     tokens[1].type = "TOKEN_LPAREN"
              /\ program.right.type = "NODE_BINARY_OP" =>
                     \E i \in 1..parser.pos :
                         /\ tokens[i].type \in BinaryOps
                         /\ tokens[i + 1].type = "TOKEN_LPAREN"

\* `x + 1 * x` has been parsed: the cursor rests on the second operator
C19_SecondOperatorLeft ==
    /\ pc = "parsed"
    /\ tokens = <<Tok("TOKEN_IDENTIFIER", "x"), Tok("TOKEN_PLUS", "+"),
                  Tok("TOKEN_NUMBER", "1"), Tok("TOKEN_MULTIPLY", "*"),
                  Tok("TOKEN_IDENTIFIER", "x"), EofToken>>
    /\ program.type = "NODE_BINARY_OP"
    /\ program.value = "+"
    /\ parser.pos = 3

\* -------------------------------------------------------------------------
\* SpecMain: main() of so_lang.c and of the enhanced compiler, one stage per
\* step.  --output and its file name are left out: they change only the name
\* of the file that is opened.
\* -------------------------------------------------------------------------
MaxAtoms == 3
MaxArgs == 1

\* lines of source text, as the characters read_file returns
SourceAtoms ==
    {
        <<"l", "e", "t", " ", "x", " ", "=", " ", "1", "\n">>,
        <<"p", "r", "i", "n", "t", "(", "x", ")", "\n">>,
        <<"r", "e", "t", "u", "r", "n", " ", "1", "\n">>,
        <<"i", "f", " ", "x", " ", "{", "\n">>,
        <<"}", "\n">>,
        <<"f", "n", " ", "f", "(", ")", " ", "{", "\n">>,
        <<"p", "r", "o", "g", "r", "a", "m", " ", "p", " ", "{", "\n">>,
        <<"$", "\n">>,
        <<"i", "f", " ", "x", "\n">>
    }

RECURSIVE Flatten(_)
Flatten(seqs) == IF seqs = <<>> THEN <<>> ELSE Head(seqs) \o Flatten(Tail(seqs))

\* a line `let NAME = NUMBER` or `print(NAME)` of a source
LetLine(name, number) == [kind |-> "let", name |-> name, number |-> number]
PrintLine(name) == [kind |-> "print", name |-> name, number |-> <<>>]

LineChars(l) ==
    IF l.kind = "let" THEN LetSource(l.name, l.number) \o <<"\n">>
    ELSE <<"p", "r", "i", "n", "t", "(">> \o l.name \o <<")", "\n">>

\* the source made of the lines ls
RECURSIVE ProgramChars(_)
ProgramChars(ls) ==
    IF ls = <<>> THEN <<>>
    ELSE IF Len(ls) = 1 THEN LineChars(ls[1])
    ELSE ProgramChars(SubSeq(ls, 1, Len(ls) \div 2))
         \o ProgramChars(SubSeq(ls, Len(ls) \div 2 + 1, Len(ls)))

\* sources of let and print lines: the short ones, one whose NAME has
\* MAX_TOKEN_LEN characters, and one of MAX_TOKENS \div 5 lines of five
\* tokens each
ShortLetPrintPrograms ==
    SeqsUpTo({LetLine(<<"x">>, <<"1">>), PrintLine(<<"x">>)}, MaxAtoms)

LongLetPrintPrograms ==
    {<<LetLine(Repeat("a", MAX_TOKEN_LEN), <<"1">>)>>,
     [i \in 1..(MAX_TOKENS \div 5) |-> LetLine(<<"x">>, <<"1">>)]}

MainSources ==
    {Flatten(atoms) : atoms \in SeqsUpTo(SourceAtoms, MaxAtoms)}
        \cup {ProgramChars(ls) : ls \in LongLetPrintPrograms}

Options(v) ==
    IF v = "enhanced" THEN {"--rust", "--bootstrap"}
    ELSE {"--rust", "--solana", "--anchor", "--native-solana"}

\* the loop of main over argv[2..]
RECURSIVE ParseOptions(_, _, _, _)
ParseOptions(args, i, l, v) ==
    IF i > Len(args) THEN l
    ELSE ParseOptions(args, i + 1,
             CASE args[i] = "--rust" -> [l EXCEPT !.to_rust = TRUE]
               [] v = "enhanced" /\ args[i] = "--bootstrap" ->
                    [l EXCEPT !.bootstrap = TRUE]
               [] v = "solang" /\ args[i] = "--solana" ->
                    [l EXCEPT !.force_solana = TRUE, !.to_rust = TRUE]
               [] v = "solang" /\ args[i] = "--anchor" ->
                    [l EXCEPT !.force_solana = TRUE, !.to_rust = TRUE,
                              !.use_anchor = TRUE]
               [] v = "solang" /\ args[i] = "--native-solana" ->
                    [l EXCEPT !.force_solana = TRUE, !.to_rust = TRUE,
                              !.use_anchor = FALSE]
               [] OTHER -> l,
             v)

InitialLocals ==
    [to_rust |-> FALSE, force_solana |-> FALSE, use_anchor |-> FALSE,
     bootstrap |-> FALSE, is_solana |-> FALSE, output_fp |-> "none"]

Call(fn, err) == [fn |-> fn, has_error |-> err]

MainInit ==
    /\ variant \in Variants
    /\ pc = "main"
    /\ has_error = FALSE
    /\ lexer = NoLexer
    /\ tokens = <<>>
    /\ parser = NoParser
    /\ program = NULL
    /\ function_names = <<>>
    /\ iters = 0
    /\ source \in MainSources
    /\ argv \in SeqsUpTo(Options(variant), MaxArgs)
    /\ locals = InitialLocals
    /\ statics = NoStatics
    /\ compiler = NoCompiler
    /\ output = <<>>
    /\ skipped = <<>>
    /\ calls = <<>>
    /\ exit_code = -1
    /\ emitted = <<>>
    /\ run = 1

\* the options are read, then read_file opens the input or fails
MainStart ==
    /\ pc = "main"
    /\ locals' = ParseOptions(argv, 1, locals, variant)
    /\ calls' = Append(calls, Call("read_file", has_error))
    /\ \/ pc' = "read" /\ UNCHANGED exit_code
       \/ pc' = "exited" /\ exit_code' = 1
    /\ UNCHANGED <<variant, has_error, lexer, parseVars, source, argv, statics,
                   compiler, output, skipped, emitted, run>>

\* MainLex without the test of has_error after lexer_tokenize
MainLexUngated ==
    /\ pc = "read"
    /\ \E st \in {lexer_tokenize([lexer |-> lexer_create(source),
                                  has_error |-> has_error], variant)} :
           /\ lexer' = st.lexer
           /\ has_error' = st.has_error
           /\ calls' = Append(calls, Call("lexer_tokenize", st.has_error))
           /\ pc' = "lexed"
    /\ UNCHANGED <<variant, parseVars, source, argv, locals, statics, compiler,
                   output, skipped, exit_code, emitted, run>>

\* lexer_create, lexer_tokenize and the test of has_error that follows
MainLex ==
    /\ pc = "read"
    /\ \E st \in {lexer_tokenize([lexer |-> lexer_create(source),
                                  has_error |-> has_error], variant)} :
           /\ lexer' = st.lexer
           /\ has_error' = st.has_error
           /\ calls' = Append(calls, Call("lexer_tokenize", st.has_error))
           /\ IF st.has_error
              THEN pc' = "exited" /\ exit_code' = 1
              ELSE pc' = "lexed" /\ UNCHANGED exit_code
    /\ UNCHANGED <<variant, parseVars, source, argv, locals, statics, compiler,
                   output, skipped, emitted, run>>

\* parser_create, parser_parse and the test of has_error that follows; a
\* parser_parse that never returns leaves main hung
MainParse ==
    /\ pc = "lexed"
    /\ \E r \in {Parse("program", lexer.tokens,
                       parser_create(has_error, function_names), variant)} :
           /\ tokens' = lexer.tokens
           /\ parser' = [pos |-> r.ps.pos]
           /\ program' = r.node
           /\ has_error' = r.ps.has_error
           /\ function_names' = r.ps.function_names
           /\ calls' = Append(calls, Call("parser_parse", r.ps.has_error))
           /\ IF r.ps.hang THEN pc' = "hung" /\ UNCHANGED exit_code
              ELSE IF r.ps.has_error THEN pc' = "exited" /\ exit_code' = 1
              ELSE pc' = "parsed" /\ UNCHANGED exit_code
    /\ UNCHANGED <<variant, lexer, iters, source, argv, locals, statics,
                   compiler, output, skipped, emitted, run>>

\* MainOpen without `to_rust = true` for a unit classified as a chain program
MainOpenKeepsTarget ==
    /\ pc = "parsed"
    /\ \E d \in {IF variant = "solang" /\ ~locals.force_solana
                 THEN detect_solana_program(statics, program)
                 ELSE [ret |-> variant = "solang", es |-> statics]} :
       \E fp \in {"open", "NULL"} :
           /\ statics' = d.es
           /\ locals' = [locals EXCEPT !.is_solana = d.ret,
                                       !.output_fp = fp]
           /\ calls' = Append(calls, Call("fopen", has_error))
           /\ IF fp = "NULL" THEN pc' = "exited" /\ exit_code' = 1
              ELSE pc' = "opened" /\ UNCHANGED exit_code
    /\ UNCHANGED <<variant, has_error, lexer, parseVars, source, argv, compiler,
                   output, skipped, emitted, run>>

\* so_lang.c classifies the unit; both compilers open the output file, which
\* succeeds or fails
MainOpen ==
    /\ pc = "parsed"
    /\ \E d \in {IF variant = "solang" /\ ~locals.force_solana
                 THEN detect_solana_program(statics, program)
                 ELSE [ret |-> variant = "solang", es |-> statics]} :
       \E fp \in {"open", "NULL"} :
           /\ statics' = d.es
           /\ locals' = [locals EXCEPT !.is_solana = d.ret,
                                       !.to_rust = @ \/ d.ret,
                                       !.output_fp = fp]
           /\ calls' = Append(calls, Call("fopen", has_error))
           /\ IF fp = "NULL" THEN pc' = "exited" /\ exit_code' = 1
              ELSE pc' = "opened" /\ UNCHANGED exit_code
    /\ UNCHANGED <<variant, has_error, lexer, parseVars, source, argv, compiler,
                   output, skipped, emitted, run>>

\* compiler_create, the two assignments of so_lang.c, compiler_compile
MainCompile ==
    /\ pc = "opened"
    /\ \E es \in {compiler_compile(
                      EmissionState(
                          IF variant = "solang"
                          THEN [compiler_create(locals.to_rust) EXCEPT
                                   !.is_solana_program = locals.is_solana,
                                   !.use_anchor = locals.use_anchor]
                          ELSE compiler_create(locals.to_rust),
                          NoSolanaCompiler, statics.in_function,
                          statics.detected_solana, statics.detected_program_name),
                      program, variant)} :
           /\ compiler' = es.c
           /\ output' = es.out
           /\ skipped' = es.skipped
           /\ statics' = [detected_solana |-> es.detected_solana,
                          detected_program_name |-> es.detected_program_name,
                          in_function |-> es.in_function]
    /\ calls' = Append(calls, Call("compiler_compile", has_error))
    /\ pc' = "compiled"
    /\ UNCHANGED <<variant, has_error, lexer, parseVars, source, argv, locals,
                   exit_code, emitted, run>>

\* fclose, the frees, return 0
MainFinish ==
    /\ pc = "compiled"
    /\ locals' = [locals EXCEPT !.output_fp = "closed"]
    /\ calls' = Append(calls, Call("fclose", has_error))
    /\ exit_code' = 0
    /\ pc' = "exited"
    /\ UNCHANGED <<variant, has_error, lexer, parseVars, source, argv, statics,
                   compiler, output, skipped, emitted, run>>

MainNext ==
    MainStart \/ MainLex \/ MainParse \/ MainOpen \/ MainCompile \/ MainFinish

SpecMain == MainInit /\ [][MainNext]_vars

Called(fn) == \E i \in 1..Len(calls) : calls[i].fn = fn

\* the call of fn in this run came back with has_error set
Failed(fn) == \E i \in 1..Len(calls) : calls[i].fn = fn /\ calls[i].has_error

\* C3: the stages of main are gated by errors.  After a lexer_tokenize that
\* recorded an error, parser_parse is never called, no output file is opened
\* and main returns 1; after a parser_parse that recorded an error,
\* compiler_compile is never called, no output file is opened and main returns
\* 1; main returns 0 only when no stage recorded an error, compiler_compile
\* wrote the output and the file was closed.
C3_StagesGated ==
    /\ Failed("lexer_tokenize") =>
           /\ ~Called("parser_parse") /\ ~Called("fopen")
           /\ pc = "exited" /\ exit_code = 1
    /\ Failed("parser_parse") =>
           /\ ~Called("compiler_compile") /\ ~Called("fopen")
           /\ pc \in {"exited", "hung"}
           /\ pc = "exited" => exit_code = 1
    /\ exit_code = 0 =>
           /\ \A i \in 1..Len(calls) : ~calls[i].has_error
           /\ ~has_error
           /\ Called("compiler_compile") /\ output # <<>>
           /\ locals.output_fp = "closed"

\* a run that stopped after lexer_tokenize recorded an error
C3_LexErrorStops ==
    pc = "exited" /\ exit_code = 1 /\ Failed("lexer_tokenize")

\* a run of the enhanced compiler that stopped after parser_parse recorded an error
C3_ParseErrorStops ==
    pc = "exited" /\ exit_code = 1 /\ Failed("parser_parse")

\* a run that returned 0
C3_Success == pc = "exited" /\ exit_code = 0 /\ locals.output_fp = "closed"

\* C7: a node kind without an emission rule for the active target is a fatal
\* error: a run in which the emitter met such a node does not report success.
C7_UnsupportedIsFatal == skipped # <<>> => exit_code # 0

\* C10: with --solana, --anchor or --native-solana the emitter of so_lang.c ends
\* compiler_compile with is_solana_program still true and has written the
\* chain headers, not `fn main() {`.
C10_ForcedChainTarget ==
    (variant = "solang" /\ locals.force_solana /\ Called("compiler_compile")) =>
        /\ compiler.is_solana_program
        /\ \A i \in 1..Len(output) : output[i] # "fn main() {\n"

\* the fragments of an output
Written(out) == {out[i] : i \in 1..Len(out)}

SubTargetFlags == {"--anchor", "--native-solana"}

\* C11: a unit classified as a chain program, by detection or by flag, is
\* emitted as Rust whatever target was requested: the compiler runs with
\* to_rust set, no C header and no `int main()` is written, and when no
\* sub-target flag was given the framework sub-target is not selected and
\* none of its imports is written.
C11_ChainProgramIsRust ==
    (pc \in {"compiled", "exited"} /\ Called("compiler_compile")
         /\ locals.is_solana) =>
        /\ compiler.to_rust
        /\ Written(output) \cap
               {"#include <stdio.h>\n", "#include <stdlib.h>\n",
                "#include <string.h>\n\n", "int main() {\n",
                "    return 0;\n}\n"} = {}
        /\ (\A i \in 1..Len(argv) : argv[i] \notin SubTargetFlags) =>
               /\ ~compiler.use_anchor
               /\ "use anchor_lang::prelude::*;\n" \notin Written(output)

\* a detected chain program compiled with no option at all
C11_DetectedWithoutFlag ==
    /\ pc = "exited"
    /\ exit_code = 0
    /\ argv = <<>>
    /\ locals.is_solana
    /\ "entrypoint!(process_instruction);\n\n" \in Written(output)

\* the C text of the line l
LineC(l) ==
    IF l.kind = "let"
    THEN "    int " \o Text(l.name) \o " = " \o Text(l.number) \o ";\n"
    ELSE "    printf(\"%d\\n\", " \o Text(l.name) \o ");\n"

RECURSIVE LinesC(_)
LinesC(ls) ==
    IF ls = <<>> THEN ""
    ELSE IF Len(ls) = 1 THEN LineC(ls[1])
    ELSE LinesC(SubSeq(ls, 1, Len(ls) \div 2))
         \o LinesC(SubSeq(ls, Len(ls) \div 2 + 1, Len(ls)))

\* the C program the claim describes for the lines ls
ExpectedC(ls) ==
    "#include <stdio.h>\n#include <stdlib.h>\n#include <string.h>\n\nint main() {\n"
    \o LinesC(ls) \o "    return 0;\n}\n"

\* every source of let and print lines of the model, with its lines, whether
\* it stays within the limits of the lexer, and the C program expected for it
LetPrintCases ==
    {[chars |-> ProgramChars(ls),
      within |-> /\ 5 * Len(ls) + 1 <= MAX_TOKENS
                 /\ \A i \in 1..Len(ls) :
                        /\ Len(ls[i].name) <= MAX_TOKEN_LEN - 1
                        /\ Len(ls[i].number) <= MAX_TOKEN_LEN - 1,
      c |-> ExpectedC(ls)] :
        ls \in ShortLetPrintPrograms \cup LongLetPrintPrograms}

\* main on the source of case k with the native C target: no error, no other
\* return of 1 than for a file that cannot be opened, and after
\* compiler_compile the expected C program
CompilesToC(k) ==
    (source = k.chars /\ \A i \in 1..Len(argv) : argv[i] = "--bootstrap") =>
        /\ ~has_error
        /\ pc # "hung"
        /\ (pc = "exited" /\ exit_code = 1) =>
               \/ ~Called("lexer_tokenize")
               \/ locals.output_fp = "NULL"
        /\ Called("compiler_compile") => Bytes(output) = k.c
        /\ (pc = "exited" /\ exit_code = 0) => Called("compiler_compile")

MaxItems == 3

TokenAtoms ==
    {
        <<Tok("TOKEN_LET", "let"), Tok("TOKEN_IDENTIFIER", "x"),
          Tok("TOKEN_ASSIGN", "="), Tok("TOKEN_NUMBER", "1")>>,
        <<Tok("TOKEN_PRINT", "print"), Tok("TOKEN_LPAREN", "("),
          Tok("TOKEN_IDENTIFIER", "x"), Tok("TOKEN_RPAREN", ")")>>,
        <<Tok("TOKEN_IF", "if"), Tok("TOKEN_IDENTIFIER", "x"),
          Tok("TOKEN_LBRACE", "{")>>,
        <<Tok("TOKEN_RBRACE", "}")>>,
        <<Tok("TOKEN_PROGRAM", "program"), Tok("TOKEN_IDENTIFIER", "p"),
          Tok("TOKEN_LBRACE", "{")>>,
        <<Tok("TOKEN_INSTRUCTION", "instruction"), Tok("TOKEN_IDENTIFIER", "i"),
          Tok("TOKEN_LBRACE", "{"), Tok("TOKEN_RBRACE", "}")>>,
        <<Tok("TOKEN_REQUIRE", "require"), Tok("TOKEN_LPAREN", "("),
          Tok("TOKEN_IDENTIFIER", "x"), Tok("TOKEN_RPAREN", ")")>>
    }

TokenInputs(n) ==
    {Append(Flatten(atoms), EofToken) : atoms \in SeqsUpTo(TokenAtoms, n)}

\* the trees of the token sequences on which parser_parse returns
Parsed(inputs, v) ==
    {r.node : r \in {q \in {Parse("program", toks, parser_create(FALSE, <<>>), v) :
                               toks \in inputs} : ~q.ps.hang}}

DetectInit ==
    /\ variant = "solang"
    /\ pc = "parsed"
    /\ has_error = FALSE
    /\ lexer = NoLexer
    /\ tokens = <<>>
    /\ parser = NoParser
    /\ program \in Parsed(TokenInputs(MaxItems), "solang")
    /\ function_names = <<>>
    /\ iters = 0
    /\ MainIdle

\* bool is_solana = detect_solana_program(ast);
Detect ==
    /\ pc = "parsed"
    /\ \E d \in {detect_solana_program(statics, program)} :
           /\ statics' = d.es
           /\ locals' = [is_solana |-> d.ret]
    /\ pc' = "classified"
    /\ UNCHANGED <<variant, has_error, lexer, parseVars, source, argv, compiler,
                   output, skipped, calls, exit_code, emitted, run>>

DetectNext == Detect

SpecDetect == DetectInit /\ [][DetectNext]_vars

SolanaKinds == SolanaStatementKinds \cup {"NODE_PROGRAM_DECL"}

\* the tree under node holds a node of a chain-extension kind in some slot
RECURSIVE HasSolanaNode(_)
HasSolanaNode(node) ==
    /\ node # NULL
    /\ \/ node.type \in SolanaKinds
       \/ HasSolanaNode(node.left) \/ HasSolanaNode(node.right)
       \/ HasSolanaNode(node.condition)
       \/ HasSolanaNode(node.then_branch) \/ HasSolanaNode(node.else_branch)
       \/ \E i \in 1..Len(node.children) : HasSolanaNode(node.children[i])

\* C4: detect_solana_program returns true exactly for the trees that hold a
\* chain-extension node at some depth in some child slot (children, left,
\* right, condition, then_branch, else_branch).
C4_DetectsEveryChainNode ==
    pc = "classified" => (locals.is_solana <=> HasSolanaNode(program))

\* the names of the ProgramDecl nodes of the tree under node, in pre-order
RECURSIVE ProgramNames(_)
RECURSIVE ProgramNamesIn(_)
ProgramNamesIn(nodes) ==
    IF nodes = <<>> THEN <<>>
    ELSE ProgramNames(Head(nodes)) \o ProgramNamesIn(Tail(nodes))

ProgramNames(node) ==
    IF node = NULL THEN <<>>
    ELSE (IF node.type = "NODE_PROGRAM_DECL" THEN <<node.value>> ELSE <<>>)
         \o ProgramNamesIn(<<node.left, node.right, node.condition,
                             node.then_branch, node.else_branch>>)
         \o ProgramNamesIn(node.children)

\* C12: after detect_solana_program on a tree that holds a ProgramDecl,
\* detected_program_name is the name of the first ProgramDecl in pre-order,
\* whatever chain-extension node comes before it in the tree.
C12_FirstProgramNameRecorded ==
    (pc = "classified" /\ ProgramNames(program) # <<>>) =>
        statics.detected_program_name = <<Head(ProgramNames(program))>>

\* -------------------------------------------------------------------------
\* SpecEmit: compiler_compile of both compilers and solana_compiler_compile on
\* the trees the parsers build, emitted up to MaxEmissions times with one
\* compiler object or with a fresh one each time
\* -------------------------------------------------------------------------
MaxEmissions == 2

Emitters == {"solang", "enhanced", "solana"}

EmitAtoms(v) ==
    IF v = "enhanced"
    THEN {<<Tok("TOKEN_LET", "let"), Tok("TOKEN_IDENTIFIER", "x"),
            Tok("TOKEN_ASSIGN", "="), Tok("TOKEN_NUMBER", "1"),
            Tok("TOKEN_NEWLINE", "\n")>>,
          <<Tok("TOKEN_PRINT", "print"), Tok("TOKEN_LPAREN", "("),
            Tok("TOKEN_IDENTIFIER", "x"), Tok("TOKEN_RPAREN", ")"),
            Tok("TOKEN_NEWLINE", "\n")>>,
          <<Tok("TOKEN_FN", "fn"), Tok("TOKEN_IDENTIFIER", "f"),
            Tok("TOKEN_LPAREN", "("), Tok("TOKEN_RPAREN", ")"),
            Tok("TOKEN_LBRACE", "{"), Tok("TOKEN_RETURN", "return"),
            Tok("TOKEN_NUMBER", "1"), Tok("TOKEN_RBRACE", "}"),
            Tok("TOKEN_NEWLINE", "\n")>>,
          <<Tok("TOKEN_FN", "fn"), Tok("TOKEN_IDENTIFIER", "g"),
            Tok("TOKEN_LPAREN", "("), Tok("TOKEN_RPAREN", ")"),
            Tok("TOKEN_LBRACE", "{"), Tok("TOKEN_RBRACE", "}")>>,
          <<Tok("TOKEN_IF", "if"), Tok("TOKEN_IDENTIFIER", "x"),
            Tok("TOKEN_LBRACE", "{"), Tok("TOKEN_IDENTIFIER", "f"),
            Tok("TOKEN_LPAREN", "("), Tok("TOKEN_RPAREN", ")"),
            Tok("TOKEN_RBRACE", "}"), Tok("TOKEN_NEWLINE", "\n")>>,
          <<Tok("TOKEN_FN", "fn"), Tok("TOKEN_IDENTIFIER", "h"),
            Tok("TOKEN_LPAREN", "("), Tok("TOKEN_RPAREN", ")"),
            Tok("TOKEN_LBRACE", "{"), Tok("TOKEN_IF", "if"),
            Tok("TOKEN_IDENTIFIER", "x"), Tok("TOKEN_LBRACE", "{"),
            Tok("TOKEN_RETURN", "return"), Tok("TOKEN_NUMBER", "1"),
            Tok("TOKEN_RBRACE", "}"), Tok("TOKEN_PRINT", "print"),
            Tok("TOKEN_LPAREN", "("), Tok("TOKEN_IDENTIFIER", "x"),
            Tok("TOKEN_RPAREN", ")"), Tok("TOKEN_RBRACE", "}"),
            Tok("TOKEN_NEWLINE", "\n")>>,
          <<Tok("TOKEN_FN", "fn"), Tok("TOKEN_NUMBER", "1"),
            Tok("TOKEN_NEWLINE", "\n")>>}
    ELSE {<<Tok("TOKEN_LET", "let"), Tok("TOKEN_IDENTIFIER", "x"),
            Tok("TOKEN_ASSIGN", "="), Tok("TOKEN_NUMBER", "1")>>,
          <<Tok("TOKEN_PROGRAM", "program"), Tok("TOKEN_IDENTIFIER", "p"),
            Tok("TOKEN_LPAREN", "("), Tok("TOKEN_STRING", "id"),
            Tok("TOKEN_RPAREN", ")"), Tok("TOKEN_LBRACE", "{")>>,
          <<Tok("TOKEN_PROGRAM", "program"), Tok("TOKEN_IDENTIFIER", "q"),
            Tok("TOKEN_LBRACE", "{")>>,
          <<Tok("TOKEN_RBRACE", "}")>>,
          <<Tok("TOKEN_INSTRUCTION", "instruction"), Tok("TOKEN_IDENTIFIER", "i"),
            Tok("TOKEN_LBRACE", "{"), Tok("TOKEN_RBRACE", "}")>>,
          <<Tok("TOKEN_INSTRUCTION", "instruction"), Tok("TOKEN_IDENTIFIER", "j"),
            Tok("TOKEN_LBRACE", "{"),
            Tok("TOKEN_INSTRUCTION", "instruction"), Tok("TOKEN_IDENTIFIER", "k"),
            Tok("TOKEN_LBRACE", "{"), Tok("TOKEN_RBRACE", "}"),
            Tok("TOKEN_RBRACE", "}")>>,
          <<Tok("TOKEN_REQUIRE", "require"), Tok("TOKEN_LPAREN", "("),
            Tok("TOKEN_IDENTIFIER", "x"), Tok("TOKEN_COMMA", ","),
            Tok("TOKEN_STRING", "oops"), Tok("TOKEN_RPAREN", ")")>>}

\* the trees handed to the emitter v: the roots parser_parse returns, and for
\* solana_compiler_compile the nodes solana_parser_parse returns
EmitInputs(v) ==
    {r.node :
        r \in {q \in {Parse(IF v = "solana" THEN "solana" ELSE "program", toks,
                            parser_create(FALSE, <<>>),
                            IF v = "enhanced" THEN "enhanced" ELSE "solang") :
                         toks \in {Append(Flatten(atoms), EofToken) :
                                      atoms \in SeqsUpTo(EmitAtoms(v), MaxItems)}} :
                  ~q.ps.hang /\ q.node # NULL}}

Target(to_rust, is_solana, use_anchor) ==
    [to_rust |-> to_rust, is_solana |-> is_solana, use_anchor |-> use_anchor]

Targets(v) ==
    CASE v = "enhanced" -> {Target(FALSE, FALSE, FALSE), Target(TRUE, FALSE, FALSE)}
      [] v = "solana" -> {Target(TRUE, TRUE, FALSE), Target(TRUE, TRUE, TRUE)}
      [] OTHER -> {Target(FALSE, FALSE, FALSE), Target(TRUE, FALSE, FALSE),
                   Target(TRUE, TRUE, FALSE), Target(TRUE, TRUE, TRUE)}

\* the compiler object as its creator leaves it: compiler_create and the two
\* assignments of so_lang.c's main, or solana_compiler_create
NewCompiler(v, target, pad) ==
    CASE v = "solana" -> solana_compiler_create(target.use_anchor, pad)
      [] v = "solang" -> [compiler_create(target.to_rust) EXCEPT
                             !.is_solana_program = target.is_solana,
                             !.use_anchor = target.use_anchor]
      [] OTHER -> compiler_create(target.to_rust)

EmitInit ==
    /\ variant \in Emitters
    /\ pc = "created"
    /\ has_error = FALSE
    /\ lexer = NoLexer
    /\ tokens = <<>>
    /\ parser = NoParser
    /\ program \in EmitInputs(variant)
    /\ function_names = <<>>
    /\ iters = 0
    /\ source = <<>>
    /\ argv = <<>>
    /\ locals \in Targets(variant)
    /\ statics = NoStatics
    /\ \E pad \in (IF variant = "solana" THEN BOOLEAN ELSE {FALSE}) :
           compiler = NewCompiler(variant, locals, pad)
    /\ output = <<>>
    /\ skipped = <<>>
    /\ calls = <<>>
    /\ exit_code = -1
    /\ emitted = <<>>
    /\ run = 1

\* compiler_compile(compiler, ast) or solana_compiler_compile(compiler, ast)
EmitCompile ==
    /\ pc = "created"
    /\ \E es \in {Emit(variant,
                       EmissionState(
                           IF variant = "solana" THEN NoCompiler ELSE compiler,
                           IF variant = "solana" THEN compiler ELSE NoSolanaCompiler,
                           statics.in_function, statics.detected_solana,
                           statics.detected_program_name),
                       program)} :
           /\ compiler' = IF variant = "solana" THEN es.sc ELSE es.c
           /\ output' = es.out
           /\ skipped' = es.skipped
           /\ emitted' = Append(emitted, es.out)
           /\ statics' = [detected_solana |-> es.detected_solana,
                          detected_program_name |-> es.detected_program_name,
                          in_function |-> es.in_function]
    /\ pc' = "emitted"
    /\ UNCHANGED <<variant, has_error, lexer, parseVars, source, argv, locals,
                   calls, exit_code, run>>

\* the caller emits again with the compiler object it has
EmitReuse ==
    /\ pc = "emitted"
    /\ Len(emitted) < MaxEmissions
    /\ output' = <<>>
    /\ calls' = Append(calls, Call("reuse", has_error))
    /\ pc' = "created"
    /\ UNCHANGED <<variant, has_error, lexer, parseVars, source, argv, locals,
                   statics, compiler, skipped, exit_code, emitted, run>>

\* the caller frees the compiler object and creates a new one
EmitRecreate ==
    /\ pc = "emitted"
    /\ Len(emitted) < MaxEmissions
    /\ \E pad \in (IF variant = "solana" THEN BOOLEAN ELSE {FALSE}) :
           compiler' = NewCompiler(variant, locals, pad)
    /\ output' = <<>>
    /\ calls' = Append(calls, Call("create", has_error))
    /\ pc' = "created"
    /\ UNCHANGED <<variant, has_error, lexer, parseVars, source, argv, locals,
                   statics, skipped, exit_code, emitted, run>>

EmitNext == EmitCompile \/ EmitReuse \/ EmitRecreate

SpecEmit == EmitInit /\ [][EmitNext]_vars

\* C5: emitting the same tree twice with the same target gives the same bytes,
\* with one compiler object and with a fresh one for the second emission.
C5_EmissionRepeats ==
    \A i \in 1..Len(emitted) : Bytes(emitted[i]) = Bytes(emitted[1])

IsFunction(node) == node.type = "NODE_FUNC_DECL"
IsItem(node) == node.type # "NODE_FUNC_DECL"

\* what compiler_compile_function writes for each of the declarations in turn
RECURSIVE Definitions(_, _)
Definitions(es, funcs) ==
    IF funcs = <<>> THEN <<>>
    ELSE compiler_compile_function(es, Head(funcs)).out \o Definitions(es, Tail(funcs))

\* what the enhanced emitter writes for each of the items in turn
RECURSIVE Items(_, _)
Items(es, nodes) ==
    IF nodes = <<>> THEN <<>>
    ELSE Emit("enhanced", es, Head(nodes)).out \o Items(es, Tail(nodes))

\* C8: the enhanced emitter writes the definitions of all top-level function
\* declarations, in source order, then opens main, then writes the top-level
\* items that are not functions, in source order, and closes main: no
\* definition comes after main is opened and no item before it.
C8_FunctionsHoisted ==
    variant = "enhanced" =>
        \A n \in 1..Len(emitted) :
            LET es == EmissionState(compiler, NoSolanaCompiler, FALSE, FALSE, <<>>)
            IN  emitted[n] =
                    (IF compiler.to_rust THEN <<>> ELSE compiler_emit_c_headers(es).out)
                    \o Definitions(es, SelectSeq(program.children, IsFunction))
                    \o <<IF compiler.to_rust THEN "fn main() {\n" ELSE "int main() {\n">>
                    \o Items(es, SelectSeq(program.children, IsItem))
                    \o <<IF compiler.to_rust THEN "}\n" ELSE "    return 0;\n}\n">>

\* an emitted program whose first top-level item is a variable declaration and
\* whose second is a function declaration
C8_FunctionAfterItem ==
    /\ variant = "enhanced" /\ emitted # <<>>
    /\ Len(program.children) >= 2
    /\ program.children[1].type = "NODE_VAR_DECL"
    /\ program.children[2].type = "NODE_FUNC_DECL"

\* the number of instruction declarations in the tree under node
RECURSIVE NumInstructions(_)
RECURSIVE NumInstructionsIn(_)
NumInstructionsIn(nodes) ==
    IF nodes = <<>> THEN 0
    ELSE NumInstructions(Head(nodes)) + NumInstructionsIn(Tail(nodes))

NumInstructions(node) ==
    IF node = NULL THEN 0
    ELSE (IF node.type = "NODE_INSTRUCTION_DECL" THEN 1 ELSE 0)
         + NumInstructionsIn(<<node.left, node.right, node.condition,
                               node.then_branch, node.else_branch>>)
         + NumInstructionsIn(node.children)

IsArm(fragment, n) == \E k \in 0..n : fragment = OpcodeArm(k)

\* the opcodes of the dispatch arms in the output, in the order written
Opcodes(out) ==
    LET IsOpcodeArm(fragment) == IsArm(fragment, Len(out))
        arms == SelectSeq(out, IsOpcodeArm)
    IN  [i \in 1..Len(arms) |-> CHOOSE k \in 0..Len(out) : arms[i] = OpcodeArm(k)]

\* C9: under the raw chain target a freshly created compiler writes one
\* dispatch arm per instruction declaration, keyed 0, 1, ..., n-1 in the order
\* of declaration.
C9_OpcodesInOrder ==
    (variant \in {"solang", "solana"} /\ locals.is_solana /\ ~locals.use_anchor
        /\ emitted # <<>>) =>
        Opcodes(emitted[1]) = [k \in 1..NumInstructions(program) |-> k - 1]

\* C28: within one run of solana_compiler_compile under the raw sub-target
\* no two instruction declarations are emitted with the same opcode, also
\* when one is the body of another, and instruction_count is the number of
\* dispatch arms opened.
C28_OpcodesDistinct ==
    (variant = "solana" /\ ~locals.use_anchor /\ pc = "emitted" /\ Len(emitted) = 1) =>
        /\ \A i, j \in 1..Len(Opcodes(output)) :
               Opcodes(output)[i] = Opcodes(output)[j] => i = j
        /\ compiler.instruction_count = Len(Opcodes(output))

\* -------------------------------------------------------------------------
\* SpecRuns: the stages of main run again in the same process, on another
\* source, after a run that returned 1 (the paths that return 1 free none of
\* the statics); the statics keep the values the earlier run left
\* -------------------------------------------------------------------------
MaxRuns == 2
MaxRunAtoms == 1

RunSources == {Flatten(atoms) : atoms \in SeqsUpTo(SourceAtoms, MaxRunAtoms)}

RunsInit ==
    /\ variant \in Variants
    /\ pc = "main"
    /\ has_error = FALSE
    /\ lexer = NoLexer
    /\ tokens = <<>>
    /\ parser = NoParser
    /\ program = NULL
    /\ function_names = <<>>
    /\ iters = 0
    /\ source \in RunSources
    /\ argv \in SeqsUpTo(Options(variant), MaxArgs)
    /\ locals = InitialLocals
    /\ statics = NoStatics
    /\ compiler = NoCompiler
    /\ output = <<>>
    /\ skipped = <<>>
    /\ calls = <<>>
    /\ exit_code = -1
    /\ emitted = <<>>
    /\ run = 1

\* the next run starts: new objects, the same statics
NextRun ==
    /\ pc = "exited"
    /\ exit_code = 1
    /\ run < MaxRuns
    /\ run' = run + 1
    /\ source' \in RunSources
    /\ pc' = "main"
    /\ lexer' = NoLexer
    /\ tokens' = <<>>
    /\ parser' = NoParser
    /\ program' = NULL
    /\ iters' = 0
    /\ locals' = InitialLocals
    /\ compiler' = NoCompiler
    /\ output' = <<>>
    /\ skipped' = <<>>
    /\ calls' = <<>>
    /\ exit_code' = -1
    /\ emitted' = Append(emitted, output)
    /\ UNCHANGED <<variant, has_error, function_names, argv, statics>>

RunsNext == MainNext \/ NextRun

SpecRuns == RunsInit /\ [][RunsNext]_vars

\* has_error after lexer_tokenize on src in a process that has compiled nothing
FreshLexError(src, v) ==
    lexer_tokenize([lexer |-> lexer_create(src), has_error |-> FALSE], v).has_error

\* C6: a run of the pipeline does not depend on the runs before it in the
\* same process: lexer_tokenize reports an error exactly when it does on the
\* same source in a process that has compiled nothing, and after parser_parse
\* the function registry holds what it holds in such a process.
C6_RunsIndependent ==
    /\ \A i \in 1..Len(calls) :
           calls[i].fn = "lexer_tokenize" =>
               calls[i].has_error = FreshLexError(source, variant)
    /\ pc = "parsed" =>
           function_names =
               Parse("program", tokens, parser_create(FALSE, <<>>), variant)
                   .ps.function_names

\* the text s holds the text m
Contains(s, m) ==
    \E i \in 1..(Len(s) - Len(m) + 1) : SubSeq(s, i, i + Len(m) - 1) = m

\* the fragment that opens the function func
FunctionOpening(func, to_rust) ==
    (IF to_rust THEN "fn " ELSE "int ") \o func.value
        \o (IF to_rust THEN "() -> i32 {\n" ELSE "() {\n")

FunctionOpenings ==
    {FunctionOpening(program.children[i], locals.to_rust) :
        i \in {j \in 1..Len(program.children) :
                  program.children[j].type = "NODE_FUNC_DECL"}}

\* C23: every function the emitter of the enhanced compiler writes ends with
\* the fallback zero return (`return 0;` for C, `0` for Rust) as the last
\* statement before its closing brace, whatever its body holds, every function
\* of the program is written, and in_function is false once it is written.
C23_FunctionEndsWithZero ==
    (variant = "enhanced" /\ pc = "emitted") =>
        /\ ~statics.in_function
        /\ Cardinality({i \in 1..Len(output) : output[i] \in FunctionOpenings})
             = Cardinality({j \in 1..Len(program.children) :
                               program.children[j].type = "NODE_FUNC_DECL"})
        /\ \A i \in 1..Len(output) :
               output[i] \in FunctionOpenings =>
                   \E j \in (i + 1)..Len(output) :
                       /\ output[j] = "}\n\n"
                       /\ output[j - 1] = IF locals.to_rust THEN "    0\n"
                                          ELSE "    return 0;\n"
                       /\ \A m \in (i + 1)..(j - 1) :
                              output[m] \notin FunctionOpenings \cup {"}\n\n"}

\* a function whose body holds a conditional return and a print statement has
\* been written for Rust after a function whose body ends with a return
C23_FunctionsWritten ==
    /\ variant = "enhanced"
    /\ pc = "emitted"
    /\ locals.to_rust
    /\ \E i \in 1..Len(output) : output[i] = "fn f() -> i32 {\n"
    /\ \E i \in 1..Len(output) : output[i] = "fn h() -> i32 {\n"
    /\ \E i \in 1..Len(output) : output[i] = "fn () -> i32 {\n"

\* C13: the guard emitted for a RequireStmt with condition c and message m
\* holds the text of m under the framework sub-target and does not hold it
\* under the raw sub-target; under both it holds the emitted condition c.
C13_RequireMessage ==
    (variant = "solana" /\ pc = "emitted"
         /\ program.type = "NODE_REQUIRE_STMT" /\ program.value # ""
         /\ program.condition # NULL) =>
        /\ Contains(Bytes(output), program.condition.value)
        /\ Contains(Bytes(output), program.value) <=> locals.use_anchor

\* the program_id fields of the ProgramDecl nodes of the tree under node, in
\* pre-order
RECURSIVE ProgramIds(_)
RECURSIVE ProgramIdsIn(_)
ProgramIdsIn(nodes) ==
    IF nodes = <<>> THEN <<>>
    ELSE ProgramIds(Head(nodes)) \o ProgramIdsIn(Tail(nodes))

ProgramIds(node) ==
    IF node = NULL THEN <<>>
    ELSE (IF node.type = "NODE_PROGRAM_DECL" THEN <<node.program_id>> ELSE <<>>)
         \o ProgramIdsIn(<<node.left, node.right, node.condition,
                           node.then_branch, node.else_branch>>)
         \o ProgramIdsIn(node.children)

DeclareIdLines == {i \in 1..Len(output) : Contains(output[i], "declare_id!")}

\* C29: the chain output of one compilation with a fresh compiler, for a tree
\* with one ProgramDecl, holds one declare_id! line with the literal program
\* id of the ProgramDecl when it carries one, and no declare_id! line when it
\* carries none.
C29_DeclareIdOnce ==
    (pc = "emitted" /\ Len(emitted) = 1
        /\ (variant = "solana" \/ (variant = "solang" /\ locals.to_rust))
        /\ Len(ProgramIds(program)) = 1) =>
        IF ProgramIds(program)[1] # <<>>
        THEN /\ Cardinality(DeclareIdLines) = 1
             /\ \A i \in DeclareIdLines :
                    Contains(output[i],
                             "declare_id!(\"" \o ProgramIds(program)[1][1] \o "\");")
        ELSE DeclareIdLines = {}

\* -------------------------------------------------------------------------
\* SpecAccounts: solana_parser_parse on an instruction declared with a list
\* of account parameters, or on an account declaration with a constraint
\* list, then solana_compiler_compile on the tree
\* -------------------------------------------------------------------------
MaxAccounts == 2

AccountNames == {"a", "b"}

\* an account parameter as the source declares it
DeclaredAccounts ==
    [name : AccountNames, is_signer : BOOLEAN, is_writable : BOOLEAN,
     is_init : BOOLEAN]

\* the tokens of one account parameter: account [signer] [writable] [init] NAME
AccountTokens(a) ==
    <<Tok("TOKEN_ACCOUNT", "account")>>
    \o (IF a.is_signer THEN <<Tok("TOKEN_SIGNER", "signer")>> ELSE <<>>)
    \o (IF a.is_writable THEN <<Tok("TOKEN_WRITABLE", "writable")>> ELSE <<>>)
    \o (IF a.is_init THEN <<Tok("TOKEN_INIT", "init")>> ELSE <<>>)
    \o <<Tok("TOKEN_IDENTIFIER", a.name)>>

RECURSIVE ParameterTokens(_)
ParameterTokens(decl) ==
    IF decl = <<>> THEN <<>>
    ELSE AccountTokens(Head(decl))
         \o (IF Tail(decl) = <<>> THEN <<>> ELSE <<Tok("TOKEN_COMMA", ",")>>)
         \o ParameterTokens(Tail(decl))

\* instruction i ( <parameters> ) { }
InstructionTokens(decl) ==
    <<Tok("TOKEN_INSTRUCTION", "instruction"), Tok("TOKEN_IDENTIFIER", "i"),
      Tok("TOKEN_LPAREN", "(")>>
    \o ParameterTokens(decl)
    \o <<Tok("TOKEN_RPAREN", ")"), Tok("TOKEN_LBRACE", "{"),
         Tok("TOKEN_RBRACE", "}"), EofToken>>

AccountLists == SeqsUpTo(DeclaredAccounts, MaxAccounts)

MaxConstraints == 4

\* what stands in the constraint list of an account declaration
ConstraintAlphabet ==
    {Tok("TOKEN_SIGNER", "signer"), Tok("TOKEN_WRITABLE", "writable"),
     Tok("TOKEN_INIT", "init"), Tok("TOKEN_COMMA", ","),
     Tok("TOKEN_IDENTIFIER", "x"), Tok("TOKEN_COLON", ":")}

\* account a ( <list> ) and the same cut off before the closing parenthesis
AccountDeclTokens(list, closed) ==
    <<Tok("TOKEN_ACCOUNT", "account"), Tok("TOKEN_IDENTIFIER", "a"),
      Tok("TOKEN_LPAREN", "(")>>
    \o list
    \o (IF closed THEN <<Tok("TOKEN_RPAREN", ")")>> ELSE <<>>)
    \o <<EofToken>>

AccountDeclInputs ==
    {AccountDeclTokens(list, closed) :
        list \in SeqsUpTo(ConstraintAlphabet, MaxConstraints), closed \in BOOLEAN}

AccountsInit ==
    /\ variant = "solana"
    /\ pc = "tokens"
    /\ has_error = FALSE
    /\ lexer = NoLexer
    /\ tokens \in {InstructionTokens(decl) : decl \in AccountLists}
                    \cup AccountDeclInputs
    /\ parser = parser_create(FALSE, <<>>)
    /\ program = NULL
    /\ function_names = <<>>
    /\ iters = 0
    /\ source = <<>>
    /\ argv = <<>>
    /\ locals \in Targets("solana")
    /\ statics = NoStatics
    /\ \E pad \in BOOLEAN : compiler = NewCompiler("solana", locals, pad)
    /\ output = <<>>
    /\ skipped = <<>>
    /\ calls = <<>>
    /\ exit_code = -1
    /\ emitted = <<>>
    /\ run = 1

\* ast = solana_parser_parse(parser)
AccountsParse ==
    /\ pc = "tokens"
    /\ \E r \in {Parse("solana", tokens, parser, "solang")} :
           /\ parser' = r.ps
           /\ program' = r.node
           /\ has_error' = r.ps.has_error
           /\ function_names' = r.ps.function_names
           /\ pc' = IF r.ps.hang THEN "hung" ELSE "parsed"
    /\ UNCHANGED <<variant, lexer, tokens, iters, mainVars>>

\* solana_compiler_compile(compiler, ast)
AccountsEmit ==
    /\ pc = "parsed"
    /\ \E es \in {Emit("solana",
                       EmissionState(NoCompiler, compiler, statics.in_function,
                                     statics.detected_solana,
                                     statics.detected_program_name),
                       program)} :
           /\ compiler' = es.sc
           /\ output' = es.out
           /\ skipped' = es.skipped
           /\ emitted' = Append(emitted, es.out)
           /\ statics' = [detected_solana |-> es.detected_solana,
                          detected_program_name |-> es.detected_program_name,
                          in_function |-> es.in_function]
    /\ pc' = "emitted"
    /\ UNCHANGED <<variant, has_error, lexer, parseVars, source, argv, locals,
                   calls, exit_code, run>>

AccountsNext == AccountsParse \/ AccountsEmit

SpecAccounts == AccountsInit /\ [][AccountsNext]_vars

\* the constraint list of the declaration `account a ( list` in tokens
ConstraintList ==
    SubSeq(tokens, 4,
           Len(tokens) - (IF tokens[Len(tokens) - 1].type = "TOKEN_RPAREN"
                          THEN 2 ELSE 1))

Lists(type) == \E i \in 1..Len(ConstraintList) : ConstraintList[i].type = type

\* C24: parsing `account NAME ( list )` terminates on every token sequence
\* and sets is_signer, is_writable and is_init exactly when the list holds
\* the signer, writable and init keyword, whatever their order and however
\* often they are repeated; every other token of the list is skipped with no
\* error and no change of a flag.
C24_AccountFlags ==
    tokens[1].type = "TOKEN_ACCOUNT" =>
        /\ pc # "hung"
        /\ ~has_error
        /\ pc \in {"parsed", "emitted"} =>
               /\ program.type = "NODE_ACCOUNT_DECL"
               /\ program.value = "a"
               /\ program.is_signer <=> Lists("TOKEN_SIGNER")
               /\ program.is_writable <=> Lists("TOKEN_WRITABLE")
               /\ program.is_init <=> Lists("TOKEN_INIT")

\* a list with a repeated constraint, another token and a constraint after it
\* has been parsed
C24_ListWithOtherToken ==
    /\ pc = "parsed"
    /\ tokens = AccountDeclTokens(<<Tok("TOKEN_INIT", "init"), Tok("TOKEN_INIT", "init"),
                                    Tok("TOKEN_IDENTIFIER", "x"),
                                    Tok("TOKEN_SIGNER", "signer")>>, TRUE)
    /\ program.is_signer /\ program.is_init /\ ~program.is_writable

\* the fragments emit_account_validation writes for the markers and the name
\* of one field of a context type
RECURSIVE ExpectedFields(_)
ExpectedFields(decl) ==
    IF decl = <<>> THEN <<>>
    ELSE <<"    #[account(">>
         \o (IF Head(decl).is_signer THEN <<"signer, ">> ELSE <<>>)
         \o (IF Head(decl).is_writable THEN <<"mut, ">> ELSE <<>>)
         \o (IF Head(decl).is_init
             THEN <<"init, payer = payer, space = 8 + 32, ">> ELSE <<>>)
         \o <<")]\n", "    pub " \o Head(decl).name \o ": Account<'info, ">>
         \o ExpectedFields(Tail(decl))

IsFieldFragment(f) ==
    \/ f \in {"    #[account(", "signer, ", "mut, ",
              "init, payer = payer, space = 8 + 32, ", ")]\n"}
    \/ \E n \in AccountNames \cup {"(null)", "i"} :
           f = "    pub " \o n \o ": Account<'info, "

\* the field fragments of an output, in the order they were written
WrittenFields(out) == SelectSeq(out, IsFieldFragment)

\* C14: under the framework sub-target the output for an instruction declared
\* with a list of account parameters holds one context field per declared
\* account, in declaration order, each with the markers of its signer,
\* writable and init flags: none missing, duplicated or reordered.
C14_AccountFieldsInOrder ==
    (pc = "emitted" /\ locals.use_anchor) =>
        \A decl \in AccountLists :
            tokens = InstructionTokens(decl) =>
                WrittenFields(output) = ExpectedFields(decl)


\* -------------------------------------------------------------------------
\* SpecStmt: parser_parse_statement on the tokens of one statement, then
\* compiler_compile_node on the node it returns, with a fresh compiler.
\* program holds the node.
\* -------------------------------------------------------------------------
MaxConds == 3
MaxBlockStmts == 2

\* the conditions of a chain, one name each
CondNames == <<"a", "b", "c", "d", "e", "f">>

\* the statements of the blocks of a chain
BlockStmts == {"print", "let"}

StmtTokens(stmt) ==
    IF stmt = "print"
    THEN <<Tok("TOKEN_PRINT", "print"), Tok("TOKEN_LPAREN", "("),
           Tok("TOKEN_IDENTIFIER", "x"), Tok("TOKEN_RPAREN", ")"),
           Tok("TOKEN_NEWLINE", "\n")>>
    ELSE <<Tok("TOKEN_LET", "let"), Tok("TOKEN_IDENTIFIER", "y"),
           Tok("TOKEN_ASSIGN", "="), Tok("TOKEN_NUMBER", "1"),
           Tok("TOKEN_NEWLINE", "\n")>>

\* `{ statements }`
BlockTokens(block) ==
    <<Tok("TOKEN_LBRACE", "{")>>
        \o Flatten([j \in 1..Len(block) |-> StmtTokens(block[j])])
        \o <<Tok("TOKEN_RBRACE", "}")>>

\* a chain is [blocks |-> the block of each condition, else |-> <<>> or
\* <<the block of the final else>>]; its tokens from the i-th `if` on
RECURSIVE ChainTokensFrom(_, _)
ChainTokensFrom(chain, i) ==
    <<Tok("TOKEN_IF", "if"), Tok("TOKEN_IDENTIFIER", CondNames[i])>>
        \o BlockTokens(chain.blocks[i])
        \o (IF i < Len(chain.blocks)
            THEN <<Tok("TOKEN_ELSE", "else")>> \o ChainTokensFrom(chain, i + 1)
            ELSE IF chain.else # <<>>
            THEN <<Tok("TOKEN_ELSE", "else")>> \o BlockTokens(chain.else[1])
            ELSE <<>>)

ChainTokens(chain) == Append(ChainTokensFrom(chain, 1), EofToken)

Blocks == SeqsUpTo(BlockStmts, MaxBlockStmts)

\* the blocks parser_parse_block fills, and one statement more
FullBlock == [j \in 1..50 |-> "print"]
OverfullBlock == [j \in 1..51 |-> "print"]

Chains ==
    {[blocks |-> bs, else |-> e] :
        bs \in UNION {[1..k -> Blocks] : k \in 1..MaxConds},
        e \in {<<>>} \cup {<<b>> : b \in Blocks}}
    \cup {[blocks |-> <<<<"let">>, b>>, else |-> <<>>] :
             b \in {FullBlock, OverfullBlock}}

\* the chains with their tokens
TokenizedChains == {<<ChainTokens(chain), chain>> : chain \in Chains}

ChainInputs == {tc[1] : tc \in TokenizedChains}

\* the chain a token sequence was made of
ChainOf == [toks \in ChainInputs |-> (CHOOSE tc \in TokenizedChains : tc[1] = toks)[2]]

MaxStmtToks == 4

StmtAlphabet ==
    {Tok("TOKEN_LET", "let"), Tok("TOKEN_RETURN", "return"),
     Tok("TOKEN_IDENTIFIER", "x"), Tok("TOKEN_NUMBER", "1"),
     Tok("TOKEN_ASSIGN", "="), Tok("TOKEN_PLUS", "+"), Tok("TOKEN_NEWLINE", "\n")}

\* the chains, and every short token sequence
StmtInputs ==
    ChainInputs
        \cup {Append(t, EofToken) : t \in SeqsUpTo(StmtAlphabet, MaxStmtToks)}

StmtInit ==
    /\ variant \in Variants
    /\ pc = "tokens"
    /\ has_error = FALSE
    /\ lexer = NoLexer
    /\ tokens \in StmtInputs
    /\ parser = NoParser
    /\ program = NULL
    /\ function_names = <<>>
    /\ iters = 0
    /\ source = <<>>
    /\ argv = <<>>
    /\ locals \in Targets("enhanced")
    /\ statics = NoStatics
    /\ compiler = NewCompiler(variant, locals, FALSE)
    /\ output = <<>>
    /\ skipped = <<>>
    /\ calls = <<>>
    /\ exit_code = -1
    /\ emitted = <<>>
    /\ run = 1

\* node = parser_parse_statement(parser)
StmtParse ==
    /\ pc = "tokens"
    /\ \E r \in {Parse("statement", tokens, ParserState, variant)} :
           /\ parser' = [pos |-> r.ps.pos]
           /\ has_error' = r.ps.has_error
           /\ function_names' = r.ps.function_names
           /\ program' = r.node
           /\ pc' = IF r.ps.hang THEN "hung" ELSE "parsed"
    /\ UNCHANGED <<variant, lexer, tokens, iters, mainVars>>

\* compiler_compile_node(compiler, node)
StmtEmit ==
    /\ pc = "parsed"
    /\ \E es \in {Emit(variant,
                       EmissionState(compiler, NoSolanaCompiler,
                                     statics.in_function, statics.detected_solana,
                                     statics.detected_program_name),
                       program)} :
           /\ compiler' = es.c
           /\ output' = es.out
           /\ skipped' = es.skipped
           /\ emitted' = Append(emitted, es.out)
           /\ statics' = [detected_solana |-> es.detected_solana,
                          detected_program_name |-> es.detected_program_name,
                          in_function |-> es.in_function]
    /\ pc' = "emitted"
    /\ UNCHANGED <<variant, has_error, lexer, parseVars, source, argv, locals,
                   calls, exit_code, run>>

StmtNext == StmtParse \/ StmtEmit

SpecStmt == StmtInit /\ [][StmtNext]_vars


\* the node of a statement of a block
StmtNode(stmt) ==
    IF stmt = "print"
    THEN [ast_create_node("NODE_PRINT_STMT") EXCEPT
             !.left = Leaf(Tok("TOKEN_IDENTIFIER", "x"))]
    ELSE [ast_create_node("NODE_VAR_DECL") EXCEPT
             !.value = "y", !.right = Leaf(Tok("TOKEN_NUMBER", "1"))]

\* the node of a block: one child per statement, in source order
BlockNode(block) ==
    [ast_create_node("NODE_PROGRAM") EXCEPT
        !.children = [j \in 1..Len(block) |-> StmtNode(block[j])]]

\* the IfStmt of the i-th condition of a chain, right-nested
RECURSIVE ChainNode(_, _)
ChainNode(chain, i) ==
    [ast_create_node("NODE_IF_STMT") EXCEPT
        !.condition = Leaf(Tok("TOKEN_IDENTIFIER", CondNames[i])),
        !.then_branch = BlockNode(chain.blocks[i]),
        !.else_branch = IF i < Len(chain.blocks) THEN ChainNode(chain, i + 1)
                        ELSE IF chain.else # <<>> THEN BlockNode(chain.else[1])
                        ELSE NULL]

\* the text of a statement of a block
StmtText(stmt, to_rust) ==
    IF stmt = "print"
    THEN IF to_rust THEN "    println!(\"{}\", x);\n" ELSE "    printf(\"%d\\n\", x);\n"
    ELSE IF to_rust THEN "    let y = 1;\n" ELSE "    int y = 1;\n"

RECURSIVE BlockText(_, _)
BlockText(block, to_rust) ==
    IF block = <<>> THEN ""
    ELSE "    " \o StmtText(Head(block), to_rust) \o BlockText(Tail(block), to_rust)

\* the conditional of the i-th condition of a chain, with the following one
\* inside its else block
RECURSIVE ChainText(_, _, _)
ChainText(chain, i, to_rust) ==
    (IF to_rust THEN "    if " \o CondNames[i] ELSE "    if (" \o CondNames[i] \o ")")
        \o " {\n" \o BlockText(chain.blocks[i], to_rust) \o "    }"
        \o (IF i < Len(chain.blocks)
            THEN " else {\n" \o "    " \o ChainText(chain, i + 1, to_rust) \o "    }"
            ELSE IF chain.else # <<>>
            THEN " else {\n" \o BlockText(chain.else[1], to_rust) \o "    }"
            ELSE "")
        \o "\n"

\* the statement of the chain is parsed and emitted as the chain says
ChainKept(chain) ==
    /\ pc \in {"parsed", "emitted"} => program = ChainNode(chain, 1)
    /\ pc = "emitted" => Bytes(output) = ChainText(chain, 1, locals.to_rust)

ShortBlocks(chain) ==
    /\ \A i \in 1..Len(chain.blocks) : Len(chain.blocks[i]) <= 50
    /\ chain.else # <<>> => Len(chain.else[1]) <= 50

C25_MissingValueIsZero ==
    pc = "emitted" =>
        /\ (program.type = "NODE_VAR_DECL" /\ program.right = NULL) =>
               Bytes(output) = (IF locals.to_rust THEN "    let " ELSE "    int ")
                                   \o program.value \o " = 0;\n"
        /\ (program.type = "NODE_RETURN_STMT" /\ program.left = NULL) =>
               Bytes(output) = "    return 0;\n"

\* the BinaryOp nodes of the tree under node
RECURSIVE BinaryOpNodes(_)
BinaryOpNodes(node) ==
    IF node = NULL THEN {}
    ELSE (IF node.type = "NODE_BINARY_OP" THEN {node} ELSE {})
         \cup BinaryOpNodes(node.left) \cup BinaryOpNodes(node.right)
         \cup BinaryOpNodes(node.condition)
         \cup BinaryOpNodes(node.then_branch) \cup BinaryOpNodes(node.else_branch)
         \cup UNION {BinaryOpNodes(node.children[i]) : i \in 1..Len(node.children)}

\* what the emitter writes for the operands of StmtAlphabet
OperandTexts == {"x", "1"}

\* C30: every BinaryOp node of the tree parser_parse_statement returns has its
\* left and its right operand (neither is the null pointer), for every token
\* sequence, and the emitter writes every binary operator between the texts
\* of two operands.
C30_OperandsPresent ==
    pc \in {"parsed", "emitted"} =>
        /\ \A b \in BinaryOpNodes(program) : b.left # NULL /\ b.right # NULL
        /\ pc = "emitted" =>
               \A i \in 1..Len(output) :
                   output[i] = " + " =>
                       /\ 1 < i /\ i < Len(output)
                       /\ output[i - 1] \in OperandTexts
                       /\ output[i + 1] \in OperandTexts

====
